---- MODULE Spec2Model ----
(***************************************************************************)
(* Model of the sound-source localisation program:                         *)
(*   - RecordingQueue4D, the median-filter ring buffer (method/gcc_phat)   *)
(*   - OnlineTask, the producer/consumer online session (task/online_task) *)
(*   - the sampling-device guard of the pages (view/*_interface)           *)
(***************************************************************************)
EXTENDS Integers, Sequences, FiniteSets, TLC

(***************************************************************************)
(* Bounds of the model                                                     *)
(***************************************************************************)
\* largest capacity (max_len) a RecordingQueue4D is constructed with
MaxK == 5
\* pushData/clear calls explored on one RecordingQueue4D
MaxOps == 7
\* online sessions explored
MaxSessions == 2
\* frames the device delivers in one online session
MaxFrames == 6
\* operations of the array page explored
MaxArrayOps == 3
\* samples of a frame handed to the delay estimators (sampleNum)
NumSamples == 8
\* largest delay, in samples, of a channel against channel 0
MaxDelay == 1
\* largest amplitude of a channel of a frame
MaxAmp == 2
\* entries of the speaker data index list of a batch task
MaxBatchItems == 2

(***************************************************************************)
(* Program constants                                                       *)
(***************************************************************************)
\* GccPhat.__init__(filterLen=5)
FilterLen == 5
\* queue.Queue(maxsize=3)
QueueMaxSize == 3

\* delay vectors (4 signed sample offsets) a frame can yield
TauSet == { <<0, 0, 0, 0>>, <<2, -1, 3, 1>>, <<-4, 5, -2, 7>> }
\* the delay estimate of a frame of an online session (onlineGccPhat is a
\* function of the frame's samples)
TauOfFrame(f) == IF f.seq % 2 = 1 THEN <<2, -1, 3, 1>> ELSE <<-4, 5, -2, 7>>

VARIABLES
  \* RecordingQueue4D
  maxLength,      \* capacity
  recQueue,       \* sequence of maxLength columns, each a 4-vector
  queueLen,       \* number of valid columns
  queueTail,      \* ring index of the newest column, -1 when empty
  pushLog,        \* history: vectors pushed since construction/clear (last maxLength)
  opCount,        \* history: operations applied to the queue
  \* OnlineTask and the sampling device
  startFlag,      \* OnlineTask._startFlag
  drawFlag,       \* OnlineTask._drawFlag
  dataQueue,      \* OnlineTask._dataQueue, a sequence of frames
  devOpen,        \* the sampling device is open
  usage,          \* HkParam._usage
  cpc,            \* position of startOnlineTask (the consumer)
  ppc,            \* position of producerThreadFunction
  outcome,        \* exit path taken by startOnlineTask
  held,           \* producer's local dataBuffer
  cur,            \* consumer's local dataBuffer
  result,         \* last value returned by onlineProcessData
  retVal,         \* last value returned by startOnlineTask
  \* the pages
  sampleBusyFlag, \* HardwareInterface.sampleBusyFlag
  speakerBusyFlag,\* HardwareInterface.speakerBusyFlag
  btnChecked,     \* OnlineInterface.setStartButton.isChecked()
  btnEnabled,     \* OnlineInterface.setStartButton.isEnabled()
  onlineWorker,   \* OnlineInterface.onlineTaskWorker
  batchWorker,    \* ExperimentInterface.batchTaskWorker and its startBatchTask
  hwWorker,       \* HardwareInterface.sampleTest*Worker and its test function
  \* history of the current online session
  sess,           \* number of the session
  active,         \* startOnlineTask executions in progress
  acq,            \* frames acquired
  proc,           \* frames processed by onlineProcessData
  launched,       \* producer threads started
  prodExit,       \* why the producer loop ended
  stopReq,        \* stopOnlineTask was called while the run flag was True
  closedAfterOpen,\* closeUsb was called after the session's openUsb call
  afterStop,      \* acquisitions, push waits and pop waits after the stop request
  timedOut,       \* the consumer's pop timed out
  lastReq,        \* the last start request and how its handler answered
  \* the step callback of the online page
  pendingSteps,   \* emitted results not yet delivered to drawOnlineStep
  dpc,            \* position of drawOnlineStep
  \* ArrayParam, ArrayTask and the array page
  micCoords,      \* ArrayParam._micCoords
  xlim, ylim, zlim, \* ArrayParam._xlim, _ylim, _zlim
  step,           \* ArrayParam._step
  config,         \* the ARRAY/* entries of the parameter file
  aStartFlag,     \* ArrayTask._startFlag
  dataHolder,     \* ArrayTask._dataHolder (<<>> stands for None)
  dataLen,        \* ArrayTask._dataLen
  apc,            \* position of startArrayTask
  scanMic,        \* arrayScanCond's local micCoords
  gridPoints,     \* arrayScanCond's local gridPoints
  idx,            \* arrayScanCond's loop index
  results,        \* arrayScanCond's local results
  scanResult,     \* startArrayTask's local result (<<>> stands for None)
  aRet,           \* what startArrayTask returned
  arrayWorker,    \* ArrayInterface.arrayTaskWorker
  reportTable,    \* the table handed to to_excel by saveReport
  lastCall,       \* history: the last call of validParamOfGiven
  lastOp,         \* history: the last operation of the array page
  arrayOps,       \* history: operations of the array page
  scanFrom,       \* history: the parameters arrayScanCond read
  stopAt,         \* history: where the scan was when stopArrayTask was called
  \* BatchTask.startBatchTask
  sampleFuture,   \* startBatchTask's local sampleFuture
  batchRet,       \* how startBatchTask ended
  batchLeft,      \* entries of speakerDataIndexList not yet played
  \* GccPhat: one frame through the normalisation and the delay estimators
  signal,         \* the 5 microphone channels of a frame
  normalized,     \* onlineProcessData's normalised signal
  pY,             \* phase-only spectra of the 5 channels
  onlineOut,      \* cross-spectra and offsets of onlineGccPhat
  offlineOut      \* retained pairs, cross-spectra and offsets of offlineGccPhat

qvars == <<maxLength, recQueue, queueLen, queueTail, pushLog, opCount>>

taskvars == <<startFlag, drawFlag, dataQueue, devOpen, usage, cpc, ppc, outcome,
              held, cur, result, retVal>>

pagevars == <<sampleBusyFlag, speakerBusyFlag, btnChecked, btnEnabled,
              onlineWorker, batchWorker, hwWorker>>

histvars == <<sess, active, acq, proc, launched, prodExit, stopReq,
              closedAfterOpen, afterStop, timedOut, lastReq>>

drawvars == <<pendingSteps, dpc>>

paramvars == <<micCoords, xlim, ylim, zlim, step>>

avars == <<paramvars, config, aStartFlag, dataHolder, dataLen, apc, scanMic,
           gridPoints, idx, results, scanResult, aRet, arrayWorker,
           reportTable, lastCall, lastOp, arrayOps, scanFrom, stopAt>>

batchvars == <<sampleFuture, batchRet, batchLeft>>

gccvars == <<signal, normalized, pY, onlineOut, offlineOut>>

vars == <<qvars, taskvars, pagevars, histvars, drawvars, avars, batchvars,
          gccvars>>

(***************************************************************************)
(* RecordingQueue4D                                                        *)
(***************************************************************************)
ZeroVec == <<0, 0, 0, 0>>

\* np.zeros((4, max_len), dtype=int)
ZeroQueue(k) == [i \in 1..k |-> ZeroVec]

Min(a, b) == IF a < b THEN a ELSE b

\* the last k elements of s (all of s when it is shorter)
LastK(s, k) == IF Len(s) <= k THEN s ELSE SubSeq(s, Len(s) - k + 1, Len(s))

\* a ring index that stops at the last column instead of wrapping
PushTailNoWrap(tail, k) == Min(tail + 1, k - 1)

\* RecordingQueue4D.pushData: ring index, length and column after a push
PushTail(tail, k) == (tail + 1) % k

\* a length that keeps counting past the capacity
PushLenUncapped(len, k) == len + 1

PushLen(len, k) == Min(len + 1, k)

PushQueue(q, tail, k, data) == [q EXCEPT ![PushTail(tail, k) + 1] = data]

\* RecordingQueue4D.isFull
isFull(len, k) == len = k

\* twice np.median of a sequence of integers: the middle element of the
\* sorted values, or the mean of the two middle ones when the length is even
Median2(s) ==
  LET n == Len(s)
      srt == SortSeq(s, LAMBDA a, b : a < b)
  IN IF n % 2 = 1 THEN 2 * srt[(n + 1) \div 2]
     ELSE srt[n \div 2] + srt[n \div 2 + 1]

\* RecordingQueue4D.getMedian (doubled): per-axis median over ALL columns
getMedian2(q) == [ax \in 1..4 |-> Median2([i \in 1..Len(q) |-> q[i][ax]])]

Double(v) == [ax \in 1..4 |-> 2 * v[ax]]

(***************************************************************************)
(* Initial state of the task, the device and the pages                     *)
(***************************************************************************)
NoFrame == [sess |-> 0, seq |-> 0]

NoResult == [kind |-> "none", val |-> ZeroVec]

NoAfterStop == [acq |-> 0, push |-> 0, pop |-> 0]

\* OnlineTask.__init__ and a closed device
InitTask ==
  /\ startFlag = FALSE
  /\ drawFlag = TRUE
  /\ dataQueue = <<>>
  /\ devOpen = FALSE
  /\ usage \in {0, 1}
  /\ cpc = "idle"
  /\ ppc = "none"
  /\ outcome = "none"
  /\ held = NoFrame
  /\ cur = NoFrame
  /\ result = NoResult
  /\ retVal = FALSE

\* HardwareInterface.__init__, OnlineInterface.__init__
InitPages ==
  /\ sampleBusyFlag = FALSE
  /\ speakerBusyFlag = FALSE
  /\ btnChecked = TRUE
  /\ btnEnabled = TRUE
  /\ onlineWorker = "none"
  /\ batchWorker = "none"
  /\ hwWorker = "none"

InitHist ==
  /\ sess = 0
  /\ active = 0
  /\ acq = 0
  /\ proc = 0
  /\ launched = 0
  /\ prodExit = "none"
  /\ stopReq = FALSE
  /\ closedAfterOpen = TRUE
  /\ afterStop = NoAfterStop
  /\ timedOut = FALSE
  /\ lastReq = "none"

(***************************************************************************)
(* ArrayParam: geometry and scan range (task/array_task)                   *)
(*                                                                         *)
(* Lengths are integers in millimetres.  A microphone array is a record    *)
(* [p, f]: p is the sequence of microphone positions (mm) and f is a       *)
(* further offset of microphone 3 (index 4 of p) in units of 10^-9 mm, so  *)
(* that positions within the validator's tolerance of a face of the        *)
(* tetrahedron can be written down.                                        *)
(***************************************************************************)
\* millimetres in a metre
Metre == 1000
\* fine units (10^-9 mm) in a millimetre
FinePerMm == 1000000000
\* epsilon = 1e-8 as a volume: 1e-8 m^3 = 10 mm^3
EpsVolume == 10
\* epsilon = 1e-8 as a ratio, times FinePerMm
EpsFine == 10
\* minimum distance of a kept grid point to a microphone: 0.05 m
MinMicDist == 50
\* ArrayParam.__init__: arm length 0.32 m, diagonal microphone at 0.128 m
ArmLen == 320
DiagLen == 128
\* ArrayParam.__init__: step 0.02 m
DefaultStep == 20

Abs(a) == IF a < 0 THEN 0 - a ELSE a

Sub3(a, b) == <<a[1] - b[1], a[2] - b[2], a[3] - b[3]>>

Dot3(a, b) == a[1] * b[1] + a[2] * b[2] + a[3] * b[3]

\* np.cross
Cross3(a, b) == <<a[2] * b[3] - a[3] * b[2],
                  a[3] * b[1] - a[1] * b[3],
                  a[1] * b[2] - a[2] * b[1]>>

\* np.linalg.det(np.column_stack((a, b, c)))
Det3(a, b, c) == Dot3(a, Cross3(b, c))

ZeroFine == <<0, 0, 0>>

\* ArrayParam.__init__ / _reset
DefaultMic == [p |-> << <<0, 0, 0>>, <<ArmLen, 0, 0>>, <<0, ArmLen, 0>>,
                        <<DiagLen, DiagLen, 0>>, <<0, 0, ArmLen>> >>,
               f |-> ZeroFine]

DefaultLim == <<0 - Metre, Metre>>

\* the check of the bounds: every axis is a pair with lower <= upper
LimsOk(xl, yl, zl) ==
  /\ Len(xl) = 2 /\ Len(yl) = 2 /\ Len(zl) = 2
  /\ ~(xl[1] > xl[2] \/ yl[1] > yl[2] \/ zl[1] > zl[2])

\* the check of the step (every caller passes one): 0 < s <= 1.0
StepOk(st) == ~(st <= 0 \/ st > Metre)

\* rule 1: mics 0,1,2 span a plane (norm of the normal above epsilon; a
\* non-zero normal of integer millimetre vectors is at least 1 mm^2 = 1e-6 m^2)
\* and mic 4 is off that plane.  For arrays smaller than one metre the
\* normal is shorter than 1 m^2, so max(1.0, norm_len) is 1.0.
PlaneOk(mic) ==
  LET a == mic.p[1]
      normal == Cross3(Sub3(mic.p[2], a), Sub3(mic.p[3], a))
      dist_plane == Dot3(normal, Sub3(mic.p[5], a))
  IN  /\ normal # <<0, 0, 0>>
      /\ ~(Abs(dist_plane) <= EpsVolume)

\* a rule 2 that forgets the bound on u + v + w
InsideNoSum(nu, nv, nw, d) ==
  /\ nu[1] > 0 \/ (nu[1] = 0 /\ nu[2] + EpsFine * d >= 0)
  /\ nv[1] > 0 \/ (nv[1] = 0 /\ nv[2] + EpsFine * d >= 0)
  /\ nw[1] > 0 \/ (nw[1] = 0 /\ nw[2] + EpsFine * d >= 0)

\* the comparison of rule 2: u, v, w >= -tol and u + v + w <= 1 + tol, where
\* u = (nu[1] + nu[2] / FinePerMm) / d and d > 0, tol = EpsFine / FinePerMm
InsideTol(nu, nv, nw, d) ==
  /\ nu[1] > 0 \/ (nu[1] = 0 /\ nu[2] + EpsFine * d >= 0)
  /\ nv[1] > 0 \/ (nv[1] = 0 /\ nv[2] + EpsFine * d >= 0)
  /\ nw[1] > 0 \/ (nw[1] = 0 /\ nw[2] + EpsFine * d >= 0)
  /\ LET s == nu[1] + nv[1] + nw[1]
         t == nu[2] + nv[2] + nw[2]
     IN  s < d \/ (s = d /\ t <= EpsFine * d)

\* rule 2: mic 3 = a + u*(b-a) + v*(c-a) + w*(p4-a), solved by Cramer's rule
\* (np.linalg.solve); each numerator is a pair <<mm^3, fine part>>
TetraOk(mic) ==
  LET a == mic.p[1]
      vb == Sub3(mic.p[2], a)
      vc == Sub3(mic.p[3], a)
      v4 == Sub3(mic.p[5], a)
      r == Sub3(mic.p[4], a)
      detM == Det3(vb, vc, v4)
      sg == IF detM < 0 THEN 0 - 1 ELSE 1
      nu == <<sg * Det3(r, vc, v4), sg * Det3(mic.f, vc, v4)>>
      nv == <<sg * Det3(vb, r, v4), sg * Det3(vb, mic.f, v4)>>
      nw == <<sg * Det3(vb, vc, r), sg * Det3(vb, vc, mic.f)>>
  IN  /\ ~(Abs(detM) <= EpsVolume)
      /\ InsideTol(nu, nv, nw, Abs(detM))

\* ArrayParam.validParamOfGiven
validParamOfGiven(mic, xl, yl, zl, st) ==
  /\ Len(mic.p) = 5
  /\ \A i \in 1..Len(mic.p) : Len(mic.p[i]) = 3
  /\ LimsOk(xl, yl, zl)
  /\ StepOk(st)
  /\ PlaneOk(mic)
  /\ TetraOk(mic)

\* the content of the parameter file that saveParamToConfig writes
ConfigOf(mic, xl, yl, zl, st) ==
  [present |-> TRUE, mic |-> mic, xlim |-> xl, ylim |-> yl, zlim |-> zl,
   step |-> st]

DefaultConfig ==
  ConfigOf(DefaultMic, DefaultLim, DefaultLim, DefaultLim, DefaultStep)

NoCall == [op |-> "none"]

NoScan == [started |-> FALSE]

NoStop == [loop |-> 0, idx |-> 0]

\* ArrayParam.__init__, ArrayTask.__init__, ArrayInterface.__init__
InitArray ==
  /\ micCoords = DefaultMic
  /\ xlim = DefaultLim /\ ylim = DefaultLim /\ zlim = DefaultLim
  /\ step = DefaultStep
  /\ config = DefaultConfig
  /\ aStartFlag = FALSE
  /\ dataHolder = <<>>
  /\ dataLen = 0
  /\ apc = "idle"
  /\ scanMic = DefaultMic
  /\ gridPoints = <<>>
  /\ idx = 0
  /\ results = <<>>
  /\ scanResult = <<>>
  /\ aRet = "none"
  /\ arrayWorker = "none"
  /\ reportTable = <<>>
  /\ lastCall = NoCall
  /\ lastOp = "none"
  /\ arrayOps = 0
  /\ scanFrom = NoScan
  /\ stopAt = NoStop

InitDraw ==
  /\ pendingSteps = 0
  /\ dpc = "idle"

(***************************************************************************)
(* GccPhat: normalisation and the two delay estimators (method/gcc_phat)   *)
(*                                                                         *)
(* A channel is a sequence of integer samples.  A phase-only spectrum is a *)
(* sequence of phases, one per rfft bin 0..NumSamples \div 2, in units of  *)
(* 2*pi/NumSamples: phase p stands for the unit complex number             *)
(* exp(2*pi*i*p/NumSamples), so that the product of two of them is the sum *)
(* of the phases modulo NumSamples.  All bins lie inside the pass band.    *)
(***************************************************************************)
\* microphoneNum = 5
microphoneNum == 5

RECURSIVE SumSeq(_)
SumSeq(x) == IF x = <<>> THEN 0 ELSE Head(x) + SumSeq(Tail(x))

\* np.max(np.abs(x)) of one channel
MaxAbs(x) ==
  CHOOSE m \in {Abs(x[k]) : k \in 1..Len(x)} :
    \A k \in 1..Len(x) : Abs(x[k]) <= m

\* x - np.mean(x), times the number of samples
MeanRemoved(x) == [k \in 1..Len(x) |-> Len(x) * x[k] - SumSeq(x)]

\* np.conj of a unit complex number
Conj(p) == (NumSamples - p) % NumSamples

\* np.argmax(np.abs(np.fft.fftshift(np.fft.irfft(cross, n=sampleNum)))) -
\* sampleNum // 2 for a cross-spectrum of unit modulus and linear phase: the
\* inverse transform is a unit impulse at the sample n with
\* cross[k] = exp(-2*pi*i*k*n/sampleNum) in every bin k, and fftshift moves
\* sample n to position (n + sampleNum // 2) % sampleNum
TauOf(cross) ==
  LET peak == CHOOSE n \in 0..(NumSamples - 1) :
                \A k \in 1..Len(cross) :
                  (cross[k] + (k - 1) * n) % NumSamples = 0
  IN  ((peak + NumSamples \div 2) % NumSamples) - NumSamples \div 2

\* GccPhat.onlineGccPhat from the phase-only spectra on:
\* crossCorrelationMatrix = [np.conj(pY[0]) * pY[i] for i in range(1, 5)]
onlineGccPhat(P) ==
  LET crossCorrelationMatrix ==
        [i \in 1..(microphoneNum - 1) |->
           [k \in 1..Len(P[1]) |-> (Conj(P[1][k]) + P[i + 1][k]) % NumSamples]]
  IN  [done |-> TRUE,
       cross |-> crossCorrelationMatrix,
       tau |-> [i \in 1..(microphoneNum - 1) |->
                  TauOf(crossCorrelationMatrix[i])]]

\* GccPhat.offlineGccPhat from the phase-only spectra on, for one frame.
\* cc: np.dot(pZ[:, None, k], np.conj(pZ[:, None, k]).T), whose entry (i, j)
\* is pZ[i] * conj(pZ[j]).  mask_triu = (av < av.T).flatten(): the row-major
\* positions (row, col) of the 5 x 5 matrix with row < col, in increasing
\* order.  gccPhat[:, :4, :] keeps the first 4 of these 10 pairs.
offlineGccPhat(P) ==
  LET cc(k) ==
        [i \in 1..microphoneNum |->
           [j \in 1..microphoneNum |-> (P[i][k] + Conj(P[j][k])) % NumSamples]]
      mask_triu ==
        SelectSeq([f \in 1..(microphoneNum * microphoneNum) |->
                     <<(f - 1) \div microphoneNum, (f - 1) % microphoneNum>>],
                  LAMBDA rc : rc[1] < rc[2])
      retained == SubSeq(mask_triu, 1, microphoneNum - 1)
      ccFlat ==
        [q \in 1..(microphoneNum - 1) |->
           [k \in 1..Len(P[1]) |->
              cc(k)[retained[q][1] + 1][retained[q][2] + 1]]]
  IN  [done |-> TRUE,
       pairs |-> retained,
       cross |-> ccFlat,
       tau |-> [q \in 1..(microphoneNum - 1) |-> TauOf(ccFlat[q])]]

\* a frame and its spectra, before the normalisation and the estimators.
\* The frames: channel ch has amplitude amp[ch] and a non-zero mean.  The
\* spectra: channel i is channel 0 delayed by d[i] samples, i.e. bin k of
\* channel i is bin k of channel 0 times exp(-2*pi*i*k*d[i]/sampleNum).
InitG ==
  /\ maxLength = FilterLen
  /\ recQueue = ZeroQueue(FilterLen)
  /\ queueLen = 0
  /\ queueTail = -1
  /\ pushLog = <<>>
  /\ opCount = 0
  /\ InitTask
  /\ usage = 1
  /\ InitPages
  /\ InitHist
  /\ InitDraw
  /\ InitArray
  /\ sampleFuture = "none"
  /\ batchRet = "none"
  /\ batchLeft = 0
  /\ \E amp \in [1..microphoneNum -> 1..MaxAmp] :
       signal = [ch \in 1..microphoneNum |-> <<amp[ch], 0 - amp[ch], 1, 0>>]
  /\ \E d \in [2..microphoneNum -> (0 - MaxDelay)..MaxDelay] :
       pY = [ch \in 1..microphoneNum |->
               [k \in 1..(NumSamples \div 2 + 1) |->
                  ((3 * (k - 1) * (k - 1))
                     + (k - 1) * (NumSamples - (IF ch = 1 THEN 0 ELSE d[ch])))
                    % NumSamples]]
  /\ normalized = [done |-> FALSE]
  /\ onlineOut = [done |-> FALSE]
  /\ offlineOut = [done |-> FALSE]

\* onlineProcessData, lines 87-92: (signal - np.mean(signal, axis=1,
\* keepdims=True)) / (np.max(np.abs(signal), axis=1, keepdims=True) +
\* epsilon).  Channel ch becomes num / (length * (den + epsilon)), with the
\* maximum taken along axis 1, i.e. over the samples of that channel
NormalizeFrame ==
  /\ ~normalized.done
  /\ normalized' =
       [done |-> TRUE,
        ch |-> [ch \in 1..microphoneNum |->
                  [num |-> MeanRemoved(signal[ch]), den |-> MaxAbs(signal[ch])]]]
  /\ UNCHANGED <<signal, pY, onlineOut, offlineOut>>
  /\ UNCHANGED <<qvars, taskvars, pagevars, histvars, drawvars, avars, batchvars>>

\* onlineGccPhat applied to the frame's spectra
RunOnlineGccPhat ==
  /\ ~onlineOut.done
  /\ onlineOut' = onlineGccPhat(pY)
  /\ UNCHANGED <<signal, pY, normalized, offlineOut>>
  /\ UNCHANGED <<qvars, taskvars, pagevars, histvars, drawvars, avars, batchvars>>

\* offlineGccPhat applied to the same spectra
RunOfflineGccPhat ==
  /\ ~offlineOut.done
  /\ offlineOut' = offlineGccPhat(pY)
  /\ UNCHANGED <<signal, pY, normalized, onlineOut>>
  /\ UNCHANGED <<qvars, taskvars, pagevars, histvars, drawvars, avars, batchvars>>

NextG ==
  \/ NormalizeFrame
  \/ RunOnlineGccPhat
  \/ RunOfflineGccPhat

SpecG == InitG /\ [][NextG]_vars

(***************************************************************************)
(* Specification of the ring buffer alone                                  *)
(***************************************************************************)
InitQ ==
  /\ maxLength \in 1..MaxK
  /\ recQueue = ZeroQueue(maxLength)
  /\ queueLen = 0
  /\ queueTail = -1
  /\ pushLog = <<>>
  /\ opCount = 0
  /\ InitTask
  /\ InitPages
  /\ InitHist
  /\ InitDraw
  /\ InitArray
  /\ sampleFuture = "none"
  /\ batchRet = "none"
  /\ batchLeft = 0
  /\ signal = [ch \in 1..microphoneNum |-> <<0, 0, 0, 0>>]
  /\ pY = [ch \in 1..microphoneNum |-> [k \in 1..(NumSamples \div 2 + 1) |-> 0]]
  /\ normalized = [done |-> FALSE]
  /\ onlineOut = [done |-> FALSE]
  /\ offlineOut = [done |-> FALSE]

\* RecordingQueue4D.pushData
pushData(data) ==
  /\ queueTail' = PushTail(queueTail, maxLength)
  /\ queueLen' = PushLen(queueLen, maxLength)
  /\ recQueue' = PushQueue(recQueue, queueTail, maxLength, data)
  /\ pushLog' = LastK(Append(pushLog, data), maxLength)
  /\ UNCHANGED maxLength

\* RecordingQueue4D.clear
clear ==
  /\ recQueue' = ZeroQueue(maxLength)
  /\ queueLen' = 0
  /\ queueTail' = -1
  /\ pushLog' = <<>>
  /\ UNCHANGED maxLength

QPush ==
  /\ UNCHANGED gccvars
  /\ UNCHANGED batchvars
  /\ UNCHANGED avars
  /\ UNCHANGED drawvars
  /\ opCount < MaxOps
  /\ \E data \in TauSet : pushData(data)
  /\ opCount' = opCount + 1
  /\ UNCHANGED <<taskvars, pagevars, histvars>>

QClear ==
  /\ UNCHANGED gccvars
  /\ UNCHANGED batchvars
  /\ UNCHANGED avars
  /\ UNCHANGED drawvars
  /\ opCount < MaxOps
  /\ clear
  /\ opCount' = opCount + 1
  /\ UNCHANGED <<taskvars, pagevars, histvars>>

NextQ == QPush \/ QClear

SpecQ == InitQ /\ [][NextQ]_vars

(***************************************************************************)
(* The sampling device (HkDriver)                                          *)
(***************************************************************************)
\* HkDriver.closeUsb: the device is closed whatever its state was
closeUsb == devOpen' = FALSE

(***************************************************************************)
(* OnlineTask.producerThreadFunction                                       *)
(***************************************************************************)
ProducerAlive == ppc \in {"check", "sample", "put"}

\* what a step of the session adds to the counts kept after a stop request
Bump(field) ==
  IF stopReq THEN [afterStop EXCEPT ![field] = @ + 1] ELSE afterStop

\* while self._startFlag:
ProducerCheck ==
  /\ UNCHANGED gccvars
  /\ UNCHANGED batchvars
  /\ UNCHANGED avars
  /\ UNCHANGED drawvars
  /\ ppc = "check"
  /\ IF startFlag
       THEN /\ ppc' = "sample"
            /\ UNCHANGED prodExit
       ELSE /\ ppc' = "done"
            /\ prodExit' = "flag"
  /\ UNCHANGED <<qvars, startFlag, drawFlag, dataQueue, devOpen, usage, cpc,
                 outcome, held, cur, result, retVal, pagevars, sess, active,
                 acq, proc, launched, stopReq, closedAfterOpen, afterStop,
                 timedOut, lastReq>>

\* dataBuffer = self._hkDriver.sampleBuffer(sampleNum) returns a frame
ProducerSample ==
  /\ UNCHANGED gccvars
  /\ UNCHANGED batchvars
  /\ UNCHANGED avars
  /\ UNCHANGED drawvars
  /\ ppc = "sample"
  /\ acq < MaxFrames
  /\ held' = [sess |-> sess, seq |-> acq + 1]
  /\ acq' = acq + 1
  /\ afterStop' = Bump("acq")
  /\ ppc' = "put"
  /\ UNCHANGED <<qvars, startFlag, drawFlag, dataQueue, devOpen, usage, cpc,
                 outcome, cur, result, retVal, pagevars, sess, active, proc,
                 launched, prodExit, stopReq, closedAfterOpen, timedOut, lastReq>>

\* sampleBuffer raises: except: break
ProducerSampleRaise ==
  /\ UNCHANGED gccvars
  /\ UNCHANGED batchvars
  /\ UNCHANGED avars
  /\ UNCHANGED drawvars
  /\ ppc = "sample"
  /\ ppc' = "done"
  /\ prodExit' = "acqRaise"
  /\ afterStop' = Bump("acq")
  /\ UNCHANGED <<qvars, startFlag, drawFlag, dataQueue, devOpen, usage, cpc,
                 outcome, held, cur, result, retVal, pagevars, sess, active,
                 acq, proc, launched, stopReq, closedAfterOpen, timedOut, lastReq>>

\* a push that overwrites the oldest queued frame when the queue is full
ProducerPutOverwrite ==
  /\ UNCHANGED gccvars
  /\ UNCHANGED batchvars
  /\ UNCHANGED avars
  /\ UNCHANGED drawvars
  /\ ppc = "put"
  /\ dataQueue' = IF Len(dataQueue) < QueueMaxSize
                     THEN Append(dataQueue, held)
                     ELSE Append(Tail(dataQueue), held)
  /\ afterStop' = Bump("push")
  /\ ppc' = "check"
  /\ UNCHANGED <<qvars, startFlag, drawFlag, devOpen, usage, cpc, outcome,
                 held, cur, result, retVal, pagevars, sess, active, acq, proc,
                 launched, prodExit, stopReq, closedAfterOpen, timedOut, lastReq>>

\* self._dataQueue.put(dataBuffer, block=True, timeout=0.5) finds a free slot
ProducerPut ==
  /\ UNCHANGED gccvars
  /\ UNCHANGED batchvars
  /\ UNCHANGED avars
  /\ UNCHANGED drawvars
  /\ ppc = "put"
  /\ Len(dataQueue) < QueueMaxSize
  /\ dataQueue' = Append(dataQueue, held)
  /\ afterStop' = Bump("push")
  /\ ppc' = "check"
  /\ UNCHANGED <<qvars, startFlag, drawFlag, devOpen, usage, cpc, outcome,
                 held, cur, result, retVal, pagevars, sess, active, acq, proc,
                 launched, prodExit, stopReq, closedAfterOpen, timedOut, lastReq>>

\* the queue stayed full for the whole timeout: queue.Full, except: break
ProducerPutTimeout ==
  /\ UNCHANGED gccvars
  /\ UNCHANGED batchvars
  /\ UNCHANGED avars
  /\ UNCHANGED drawvars
  /\ ppc = "put"
  /\ Len(dataQueue) >= QueueMaxSize
  /\ ppc' = "done"
  /\ prodExit' = "pushTimeout"
  /\ afterStop' = Bump("push")
  /\ UNCHANGED <<qvars, startFlag, drawFlag, dataQueue, devOpen, usage, cpc,
                 outcome, held, cur, result, retVal, pagevars, sess, active,
                 acq, proc, launched, stopReq, closedAfterOpen, timedOut, lastReq>>

producerThreadFunction ==
  \/ ProducerCheck
  \/ ProducerSample
  \/ ProducerSampleRaise
  \/ ProducerPut
  \/ ProducerPutTimeout

(***************************************************************************)
(* GccPhat                                                                 *)
(***************************************************************************)
\* a session start that keeps the filter of the previous session
clearFilterSkipped ==
  UNCHANGED <<maxLength, recQueue, queueLen, queueTail, pushLog>>

\* GccPhat.clearFilter
clearFilter == clear

\* GccPhat.onlineProcessData for a frame whose delay estimate is tau: push
\* the estimate, then the median-based estimate once the filter is full and
\* the all-zero sentinel before
onlineProcessData(tau) ==
  /\ pushData(tau)
  /\ result' = IF isFull(queueLen', maxLength)
                 THEN [kind |-> "computed", val |-> getMedian2(recQueue')]
                 ELSE [kind |-> "sentinel", val |-> ZeroVec]

(***************************************************************************)
(* OnlineTask.startOnlineTask, run by the worker thread                    *)
(***************************************************************************)
\* self._dataQueue.queue.clear(); retOpen = self._hkDriver.openUsb() == 0
StartOpenOk ==
  /\ UNCHANGED gccvars
  /\ UNCHANGED batchvars
  /\ UNCHANGED avars
  /\ UNCHANGED drawvars
  /\ cpc = "called"
  /\ ppc' = "none"
  /\ dataQueue' = <<>>
  /\ devOpen' = TRUE
  /\ closedAfterOpen' = FALSE
  /\ cpc' = "setFlag"
  /\ UNCHANGED <<qvars, startFlag, drawFlag, usage, outcome, held, cur,
                 result, retVal, pagevars, sess, active, acq, proc, launched,
                 prodExit, stopReq, afterStop, timedOut, lastReq>>

\* a failed open whose status is not looked at
StartOpenFailIgnored ==
  /\ UNCHANGED gccvars
  /\ UNCHANGED batchvars
  /\ UNCHANGED avars
  /\ UNCHANGED drawvars
  /\ cpc = "called"
  /\ ppc' = "none"
  /\ dataQueue' = <<>>
  /\ closedAfterOpen' = FALSE
  /\ outcome' = "openFail"
  /\ cpc' = "setFlag"
  /\ UNCHANGED <<qvars, startFlag, drawFlag, devOpen, usage, held, cur,
                 result, retVal, pagevars, sess, active, acq, proc, launched,
                 prodExit, stopReq, afterStop, timedOut, lastReq>>

\* retOpen != 0: the device was not opened
StartOpenFail ==
  /\ UNCHANGED gccvars
  /\ UNCHANGED batchvars
  /\ UNCHANGED avars
  /\ UNCHANGED drawvars
  /\ cpc = "called"
  /\ ppc' = "none"
  /\ dataQueue' = <<>>
  /\ closedAfterOpen' = FALSE
  /\ outcome' = "openFail"
  /\ cpc' = "openFailClose"
  /\ UNCHANGED <<qvars, startFlag, drawFlag, devOpen, usage, held, cur,
                 result, retVal, pagevars, sess, active, acq, proc, launched,
                 prodExit, stopReq, afterStop, timedOut, lastReq>>

\* openUsb raises: the state of the device is not known
StartOpenRaise ==
  /\ UNCHANGED gccvars
  /\ UNCHANGED batchvars
  /\ UNCHANGED avars
  /\ UNCHANGED drawvars
  /\ cpc = "called"
  /\ ppc' = "none"
  /\ dataQueue' = <<>>
  /\ devOpen' \in BOOLEAN
  /\ closedAfterOpen' = FALSE
  /\ outcome' = "except"
  /\ cpc' = "flagOff"
  /\ UNCHANGED <<qvars, startFlag, drawFlag, usage, held, cur, result,
                 retVal, pagevars, sess, active, acq, proc, launched,
                 prodExit, stopReq, afterStop, timedOut, lastReq>>

\* if retOpen != 0: self._hkDriver.closeUsb(); return False
StartOpenFailClose ==
  /\ UNCHANGED gccvars
  /\ UNCHANGED batchvars
  /\ UNCHANGED avars
  /\ UNCHANGED drawvars
  /\ cpc = "openFailClose"
  /\ closeUsb
  /\ closedAfterOpen' = TRUE
  /\ retVal' = FALSE
  /\ active' = active - 1
  /\ cpc' = "returned"
  /\ UNCHANGED <<qvars, startFlag, drawFlag, dataQueue, usage, ppc, outcome,
                 held, cur, result, pagevars, sess, acq, proc, launched,
                 prodExit, stopReq, afterStop, timedOut, lastReq>>

\* self._startFlag = True; method = self._gccPhat; method.clearFilter()
StartSetFlag ==
  /\ UNCHANGED gccvars
  /\ UNCHANGED batchvars
  /\ UNCHANGED avars
  /\ UNCHANGED drawvars
  /\ cpc = "setFlag"
  /\ startFlag' = TRUE
  /\ clearFilter
  /\ cpc' = "launch"
  /\ UNCHANGED <<opCount, drawFlag, dataQueue, devOpen, usage, ppc, outcome,
                 held, cur, result, retVal, pagevars, histvars>>

\* producerThread = threading.Thread(...); producerThread.start()
StartLaunch ==
  /\ UNCHANGED gccvars
  /\ UNCHANGED batchvars
  /\ UNCHANGED avars
  /\ UNCHANGED drawvars
  /\ cpc = "launch"
  /\ ppc' = "check"
  /\ launched' = launched + 1
  /\ cpc' = "loop"
  /\ UNCHANGED <<qvars, startFlag, drawFlag, dataQueue, devOpen, usage,
                 outcome, held, cur, result, retVal, pagevars, sess, active,
                 acq, proc, prodExit, stopReq, closedAfterOpen, afterStop,
                 timedOut, lastReq>>

\* while self._startFlag: ... else: (the loop ends without an exception)
ConsumerCheck ==
  /\ UNCHANGED gccvars
  /\ UNCHANGED batchvars
  /\ UNCHANGED avars
  /\ UNCHANGED drawvars
  /\ cpc = "loop"
  /\ IF startFlag
       THEN /\ cpc' = "get"
            /\ UNCHANGED outcome
       ELSE /\ cpc' = "flagOff"
            /\ outcome' = "else"
  /\ UNCHANGED <<qvars, startFlag, drawFlag, dataQueue, devOpen, usage, ppc,
                 held, cur, result, retVal, pagevars, histvars>>

\* a pop that takes the newest queued frame
ConsumerGetNewest ==
  /\ UNCHANGED gccvars
  /\ UNCHANGED batchvars
  /\ UNCHANGED avars
  /\ UNCHANGED drawvars
  /\ cpc = "get"
  /\ dataQueue # <<>>
  /\ cur' = dataQueue[Len(dataQueue)]
  /\ dataQueue' = SubSeq(dataQueue, 1, Len(dataQueue) - 1)
  /\ afterStop' = Bump("pop")
  /\ cpc' = "process"
  /\ UNCHANGED <<qvars, startFlag, drawFlag, devOpen, usage, ppc, outcome,
                 held, result, retVal, pagevars, sess, active, acq, proc,
                 launched, prodExit, stopReq, closedAfterOpen, timedOut, lastReq>>

\* dataBuffer = self._dataQueue.get(timeout=1.0) returns the oldest frame
\* (a ctypes array of sampleNum*8 > 0 floats is never falsy)
ConsumerGet ==
  /\ UNCHANGED gccvars
  /\ UNCHANGED batchvars
  /\ UNCHANGED avars
  /\ UNCHANGED drawvars
  /\ cpc = "get"
  /\ dataQueue # <<>>
  /\ cur' = Head(dataQueue)
  /\ dataQueue' = Tail(dataQueue)
  /\ afterStop' = Bump("pop")
  /\ cpc' = "process"
  /\ UNCHANGED <<qvars, startFlag, drawFlag, devOpen, usage, ppc, outcome,
                 held, result, retVal, pagevars, sess, active, acq, proc,
                 launched, prodExit, stopReq, closedAfterOpen, timedOut, lastReq>>

\* a pop timeout that is retried at the next turn of the loop
ConsumerGetTimeoutRetry ==
  /\ UNCHANGED gccvars
  /\ UNCHANGED batchvars
  /\ UNCHANGED avars
  /\ UNCHANGED drawvars
  /\ cpc = "get"
  /\ dataQueue = <<>>
  /\ afterStop' = Bump("pop")
  /\ timedOut' = TRUE
  /\ cpc' = "loop"
  /\ UNCHANGED <<qvars, startFlag, drawFlag, dataQueue, devOpen, usage, ppc,
                 outcome, held, cur, result, retVal, pagevars, sess, active,
                 acq, proc, launched, prodExit, stopReq, closedAfterOpen,
                 lastReq>>

\* a pop timeout taken for the regular end of the loop
ConsumerGetTimeoutEndsLoop ==
  /\ UNCHANGED gccvars
  /\ UNCHANGED batchvars
  /\ UNCHANGED avars
  /\ UNCHANGED drawvars
  /\ cpc = "get"
  /\ dataQueue = <<>>
  /\ afterStop' = Bump("pop")
  /\ timedOut' = TRUE
  /\ outcome' = "else"
  /\ cpc' = "flagOff"
  /\ UNCHANGED <<qvars, startFlag, drawFlag, dataQueue, devOpen, usage, ppc,
                 held, cur, result, retVal, pagevars, sess, active, acq, proc,
                 launched, prodExit, stopReq, closedAfterOpen, lastReq>>

\* the queue stayed empty for the whole timeout: queue.Empty is raised
ConsumerGetTimeout ==
  /\ UNCHANGED gccvars
  /\ UNCHANGED batchvars
  /\ UNCHANGED avars
  /\ UNCHANGED drawvars
  /\ cpc = "get"
  /\ dataQueue = <<>>
  /\ afterStop' = Bump("pop")
  /\ timedOut' = TRUE
  /\ outcome' = "except"
  /\ cpc' = "flagOff"
  /\ UNCHANGED <<qvars, startFlag, drawFlag, dataQueue, devOpen, usage, ppc,
                 held, cur, result, retVal, pagevars, sess, active, acq, proc,
                 launched, prodExit, stopReq, closedAfterOpen, lastReq>>

\* result = method.onlineProcessData(dataBuffer, sampleRate, sampleNum)
ConsumerProcess ==
  /\ UNCHANGED gccvars
  /\ UNCHANGED batchvars
  /\ UNCHANGED avars
  /\ UNCHANGED drawvars
  /\ cpc = "process"
  /\ onlineProcessData(TauOfFrame(cur))
  /\ proc' = proc + 1
  /\ cpc' = "emit"
  /\ UNCHANGED <<opCount, startFlag, drawFlag, dataQueue, devOpen, usage, ppc,
                 outcome, held, cur, retVal, pagevars, sess, active, acq,
                 launched, prodExit, stopReq, closedAfterOpen, afterStop,
                 timedOut, lastReq>>

\* onlineProcessData raises
ConsumerProcessRaise ==
  /\ UNCHANGED gccvars
  /\ UNCHANGED batchvars
  /\ UNCHANGED avars
  /\ UNCHANGED drawvars
  /\ cpc = "process"
  /\ outcome' = "except"
  /\ cpc' = "flagOff"
  /\ UNCHANGED <<qvars, startFlag, drawFlag, dataQueue, devOpen, usage, ppc,
                 held, cur, result, retVal, pagevars, histvars>>

\* a consumer that emits every result, whatever the draw flag is
ConsumerEmitAlways ==
  /\ UNCHANGED gccvars
  /\ UNCHANGED batchvars
  /\ UNCHANGED avars
  /\ cpc = "emit"
  /\ pendingSteps' = pendingSteps + 1
  /\ cpc' = "loop"
  /\ UNCHANGED <<qvars, startFlag, drawFlag, dataQueue, devOpen, usage, ppc,
                 outcome, held, cur, result, retVal, pagevars, histvars, dpc>>

\* if self._drawFlag: stepSignal.emit(result); self._dataQueue.task_done()
ConsumerEmit ==
  /\ UNCHANGED gccvars
  /\ UNCHANGED batchvars
  /\ UNCHANGED avars
  /\ cpc = "emit"
  /\ IF drawFlag
       THEN pendingSteps' = pendingSteps + 1
       ELSE UNCHANGED pendingSteps
  /\ UNCHANGED dpc
  /\ cpc' = "loop"
  /\ UNCHANGED <<qvars, startFlag, drawFlag, dataQueue, devOpen, usage, ppc,
                 outcome, held, cur, result, retVal, pagevars, histvars>>

\* except: / else: self._startFlag = False
ExitFlagOff ==
  /\ UNCHANGED gccvars
  /\ UNCHANGED batchvars
  /\ UNCHANGED avars
  /\ UNCHANGED drawvars
  /\ cpc = "flagOff"
  /\ startFlag' = FALSE
  /\ cpc' = "join"
  /\ UNCHANGED <<qvars, drawFlag, dataQueue, devOpen, usage, ppc, outcome,
                 held, cur, result, retVal, pagevars, histvars>>

\* cleanup that does not wait for the producer thread
ExitJoinNoWait ==
  /\ UNCHANGED gccvars
  /\ UNCHANGED batchvars
  /\ UNCHANGED avars
  /\ UNCHANGED drawvars
  /\ cpc = "join"
  /\ cpc' = "clear"
  /\ UNCHANGED <<qvars, startFlag, drawFlag, dataQueue, devOpen, usage, ppc,
                 outcome, held, cur, result, retVal, pagevars, histvars>>

\* if producerThread: producerThread.join()
ExitJoin ==
  /\ UNCHANGED gccvars
  /\ UNCHANGED batchvars
  /\ UNCHANGED avars
  /\ UNCHANGED drawvars
  /\ cpc = "join"
  /\ ~ProducerAlive
  /\ cpc' = "clear"
  /\ UNCHANGED <<qvars, startFlag, drawFlag, dataQueue, devOpen, usage, ppc,
                 outcome, held, cur, result, retVal, pagevars, histvars>>

\* cleanup that leaves the queued frames in place
ExitClearSkipped ==
  /\ UNCHANGED gccvars
  /\ UNCHANGED batchvars
  /\ UNCHANGED avars
  /\ UNCHANGED drawvars
  /\ cpc = "clear"
  /\ cpc' = "close"
  /\ UNCHANGED <<qvars, startFlag, drawFlag, dataQueue, devOpen, usage, ppc,
                 outcome, held, cur, result, retVal, pagevars, histvars>>

\* self._dataQueue.queue.clear()
ExitClear ==
  /\ UNCHANGED gccvars
  /\ UNCHANGED batchvars
  /\ UNCHANGED avars
  /\ UNCHANGED drawvars
  /\ cpc = "clear"
  /\ dataQueue' = <<>>
  /\ cpc' = "close"
  /\ UNCHANGED <<qvars, startFlag, drawFlag, devOpen, usage, ppc, outcome,
                 held, cur, result, retVal, pagevars, histvars>>

\* a return that leaves the device as it is
ExitCloseLeavesOpen ==
  /\ UNCHANGED gccvars
  /\ UNCHANGED batchvars
  /\ UNCHANGED avars
  /\ UNCHANGED drawvars
  /\ cpc = "close"
  /\ retVal' = (outcome = "else")
  /\ active' = active - 1
  /\ cpc' = "returned"
  /\ UNCHANGED <<qvars, startFlag, drawFlag, dataQueue, devOpen, usage, ppc,
                 outcome, held, cur, result, pagevars, sess, acq, proc,
                 launched, prodExit, stopReq, closedAfterOpen, afterStop,
                 timedOut, lastReq>>

\* self._hkDriver.closeUsb(); return False (except) / return True (else)
ExitClose ==
  /\ UNCHANGED gccvars
  /\ UNCHANGED batchvars
  /\ UNCHANGED avars
  /\ UNCHANGED drawvars
  /\ cpc = "close"
  /\ closeUsb
  /\ closedAfterOpen' = TRUE
  /\ retVal' = (outcome = "else")
  /\ active' = active - 1
  /\ cpc' = "returned"
  /\ UNCHANGED <<qvars, startFlag, drawFlag, dataQueue, usage, ppc, outcome,
                 held, cur, result, pagevars, sess, acq, proc, launched,
                 prodExit, stopReq, afterStop, timedOut, lastReq>>

startOnlineTask ==
  \/ StartOpenOk
  \/ StartOpenFail
  \/ StartOpenRaise
  \/ StartOpenFailClose
  \/ StartSetFlag
  \/ StartLaunch
  \/ ConsumerCheck
  \/ ConsumerGet
  \/ ConsumerGetTimeout
  \/ ConsumerProcess
  \/ ConsumerProcessRaise
  \/ ConsumerEmit
  \/ ExitFlagOff
  \/ ExitJoin
  \/ ExitClear
  \/ ExitClose

(***************************************************************************)
(* OnlineInterface: the start/stop toggle and the worker's result handler  *)
(***************************************************************************)
\* a start branch that does not look at the busy flag
SamplingBusyIgnored == FALSE

\* the guard of the start branch: hardwareInterface.sampleBusyFlag
SamplingBusy == sampleBusyFlag

\* a stop request that leaves the run flag as it is
stopOnlineTaskNoClear ==
  /\ stopReq' = (stopReq \/ startFlag)
  /\ UNCHANGED startFlag

\* OnlineTask.stopOnlineTask
stopOnlineTask ==
  /\ stopReq' = (stopReq \/ startFlag)
  /\ startFlag' = FALSE

\* checked and getStartFlag(): stop the session and disable the button
ClickStop ==
  /\ UNCHANGED gccvars
  /\ UNCHANGED batchvars
  /\ UNCHANGED avars
  /\ dpc = "idle"
  /\ UNCHANGED drawvars
  /\ btnEnabled /\ ~btnChecked
  /\ startFlag
  /\ stopOnlineTask
  /\ btnEnabled' = FALSE
  /\ btnChecked' = FALSE
  /\ UNCHANGED <<qvars, drawFlag, dataQueue, devOpen, usage, cpc, ppc, outcome,
                 held, cur, result, retVal, sampleBusyFlag, speakerBusyFlag,
                 onlineWorker, batchWorker, hwWorker, sess, active,
                 acq, proc, launched, prodExit, closedAfterOpen, afterStop,
                 timedOut, lastReq>>

\* checked and not getStartFlag(): nothing is done, the button stays checked
ClickNoStop ==
  /\ UNCHANGED gccvars
  /\ UNCHANGED batchvars
  /\ UNCHANGED avars
  /\ dpc = "idle"
  /\ UNCHANGED drawvars
  /\ btnEnabled /\ ~btnChecked
  /\ ~startFlag
  /\ btnChecked' = TRUE
  /\ UNCHANGED <<qvars, taskvars, sampleBusyFlag, speakerBusyFlag, btnEnabled,
                 onlineWorker, batchWorker, hwWorker, histvars>>

\* not checked, sampleBusyFlag: warning, the button is checked again
ClickBusy ==
  /\ UNCHANGED gccvars
  /\ UNCHANGED batchvars
  /\ UNCHANGED avars
  /\ dpc = "idle"
  /\ UNCHANGED drawvars
  /\ btnEnabled /\ btnChecked
  /\ SamplingBusy
  /\ btnChecked' = TRUE
  /\ lastReq' = "online:busy"
  /\ UNCHANGED <<qvars, taskvars, sampleBusyFlag, speakerBusyFlag, btnEnabled,
                 onlineWorker, batchWorker, hwWorker, sess, active,
                 acq, proc, launched, prodExit, stopReq, closedAfterOpen,
                 afterStop, timedOut>>

\* not checked, getUsage() != 1: warning, the button is checked again
ClickUsage ==
  /\ UNCHANGED gccvars
  /\ UNCHANGED batchvars
  /\ UNCHANGED avars
  /\ dpc = "idle"
  /\ UNCHANGED drawvars
  /\ btnEnabled /\ btnChecked
  /\ ~SamplingBusy
  /\ usage # 1
  /\ btnChecked' = TRUE
  /\ lastReq' = "online:usage"
  /\ UNCHANGED <<qvars, taskvars, sampleBusyFlag, speakerBusyFlag, btnEnabled,
                 onlineWorker, batchWorker, hwWorker, sess, active,
                 acq, proc, launched, prodExit, stopReq, closedAfterOpen,
                 afterStop, timedOut>>

\* not checked, device free and enabled: set sampleBusyFlag and start a
\* FunctionLoopWorker that calls startOnlineTask
ClickStart ==
  /\ UNCHANGED gccvars
  /\ UNCHANGED batchvars
  /\ UNCHANGED avars
  /\ dpc = "idle"
  /\ btnEnabled /\ btnChecked
  /\ ~SamplingBusy
  /\ usage = 1
  /\ sess < MaxSessions
  /\ sampleBusyFlag' = TRUE
  /\ btnEnabled' = TRUE
  /\ btnChecked' = FALSE
  /\ onlineWorker' = "running"
  /\ cpc' = "called"
  /\ sess' = sess + 1
  /\ active' = active + 1
  /\ lastReq' = "online:accepted"
  /\ acq' = 0 /\ proc' = 0 /\ launched' = 0
  /\ prodExit' = "none" /\ stopReq' = FALSE /\ afterStop' = NoAfterStop
  /\ timedOut' = FALSE
  /\ outcome' = "none"
  /\ held' = NoFrame /\ cur' = NoFrame /\ result' = NoResult
  /\ UNCHANGED <<qvars, startFlag, drawFlag, dataQueue, devOpen, usage, ppc,
                 retVal, speakerBusyFlag, batchWorker, hwWorker,
                 closedAfterOpen, pendingSteps, dpc>>

\* drawOnlineStep, entered when a queued stepSignal is delivered:
\* self.onlineTask.setDrawFlag(False)
drawOnlineStepBegin ==
  /\ UNCHANGED gccvars
  /\ UNCHANGED batchvars
  /\ UNCHANGED avars
  /\ dpc = "idle"
  /\ pendingSteps > 0
  /\ pendingSteps' = pendingSteps - 1
  /\ drawFlag' = FALSE
  /\ dpc' = "draw"
  /\ UNCHANGED <<qvars, startFlag, dataQueue, devOpen, usage, cpc, ppc,
                 outcome, held, cur, result, retVal, pagevars, histvars>>

\* drawOnlineStep: the scatter is updated (or fails), then in the except and
\* in the else clause self.onlineTask.setDrawFlag(True)
drawOnlineStepEnd ==
  /\ UNCHANGED gccvars
  /\ UNCHANGED batchvars
  /\ UNCHANGED avars
  /\ dpc = "draw"
  /\ drawFlag' = TRUE
  /\ dpc' = "idle"
  /\ UNCHANGED <<qvars, startFlag, dataQueue, devOpen, usage, cpc, ppc,
                 outcome, held, cur, result, retVal, pagevars, histvars,
                 pendingSteps>>

drawOnlineStep ==
  \/ drawOnlineStepBegin
  \/ drawOnlineStepEnd

onlineStartButtonClicked ==
  \/ ClickStop
  \/ ClickNoStop
  \/ ClickBusy
  \/ ClickUsage
  \/ ClickStart

\* the worker's result signal, sent once startOnlineTask has returned
onlineStartButtonThreadFinished ==
  /\ UNCHANGED gccvars
  /\ UNCHANGED batchvars
  /\ UNCHANGED avars
  /\ dpc = "idle" /\ pendingSteps = 0
  /\ UNCHANGED drawvars
  /\ onlineWorker = "running"
  /\ cpc = "returned"
  /\ sampleBusyFlag' = FALSE
  /\ btnEnabled' = TRUE
  /\ btnChecked' = TRUE
  /\ onlineWorker' = "none"
  /\ cpc' = "idle"
  /\ UNCHANGED <<qvars, startFlag, drawFlag, dataQueue, devOpen, usage, ppc,
                 outcome, held, cur, result, retVal, speakerBusyFlag,
                 batchWorker, hwWorker, histvars>>

(***************************************************************************)
(* HardwareInterface: the device tests and the usage switch                *)
(***************************************************************************)
\* everything an action of another page leaves alone
OnlineUnchanged ==
  UNCHANGED <<qvars, startFlag, drawFlag, dataQueue, cpc, ppc, outcome, held,
              cur, result, retVal, btnChecked, onlineWorker, sess, active,
              acq, proc, launched, prodExit, stopReq, closedAfterOpen,
              afterStop, timedOut>>

\* sampleUsageSwitchButtonChanged (the switch is frozen while sampling)
sampleUsageSwitchButtonChanged ==
  /\ UNCHANGED gccvars
  /\ UNCHANGED batchvars
  /\ UNCHANGED avars
  /\ dpc = "idle"
  /\ UNCHANGED drawvars
  /\ ~sampleBusyFlag
  /\ usage' = 1 - usage
  /\ UNCHANGED <<devOpen, btnEnabled, sampleBusyFlag, speakerBusyFlag,
                 batchWorker, hwWorker, lastReq>>
  /\ OnlineUnchanged

\* taskCard1Clicked: USB connection test
taskCard1Clicked ==
  /\ UNCHANGED gccvars
  /\ UNCHANGED batchvars
  /\ UNCHANGED avars
  /\ dpc = "idle"
  /\ UNCHANGED drawvars
  /\ IF sampleBusyFlag
       THEN UNCHANGED <<sampleBusyFlag, hwWorker>>
       ELSE /\ sampleBusyFlag' = TRUE
            /\ hwWorker' = "usb"
  /\ UNCHANGED <<devOpen, usage, btnEnabled, speakerBusyFlag, batchWorker,
                 lastReq>>
  /\ OnlineUnchanged

\* HkDriver.testUsbConnect: retOpen = self.openUsb(); time.sleep(0.5)
testUsbConnectOpen ==
  /\ UNCHANGED gccvars
  /\ UNCHANGED batchvars
  /\ UNCHANGED avars
  /\ UNCHANGED drawvars
  /\ hwWorker = "usb"
  /\ \E ok \in BOOLEAN : devOpen' = (devOpen \/ ok)
  /\ hwWorker' = "usbOpened"
  /\ UNCHANGED <<usage, btnEnabled, sampleBusyFlag, speakerBusyFlag,
                 batchWorker, lastReq>>
  /\ OnlineUnchanged

\* HkDriver.testUsbConnect: retClose = self.closeUsb(); return
testUsbConnectClose ==
  /\ UNCHANGED gccvars
  /\ UNCHANGED batchvars
  /\ UNCHANGED avars
  /\ UNCHANGED drawvars
  /\ hwWorker = "usbOpened"
  /\ closeUsb
  /\ hwWorker' = "usbReturned"
  /\ UNCHANGED <<usage, btnEnabled, sampleBusyFlag, speakerBusyFlag,
                 batchWorker, lastReq>>
  /\ OnlineUnchanged

\* taskCard1ThreadFinished
taskCard1ThreadFinished ==
  /\ UNCHANGED gccvars
  /\ UNCHANGED batchvars
  /\ UNCHANGED avars
  /\ dpc = "idle"
  /\ UNCHANGED drawvars
  /\ hwWorker = "usbReturned"
  /\ sampleBusyFlag' = FALSE
  /\ btnEnabled' = TRUE
  /\ hwWorker' = "none"
  /\ UNCHANGED <<devOpen, usage, speakerBusyFlag, batchWorker,
                 lastReq>>
  /\ OnlineUnchanged

\* taskCard3Clicked: 2 s sampling test, uses the device and the loudspeakers
taskCard3Clicked ==
  /\ UNCHANGED gccvars
  /\ UNCHANGED batchvars
  /\ UNCHANGED avars
  /\ dpc = "idle"
  /\ UNCHANGED drawvars
  /\ IF sampleBusyFlag \/ speakerBusyFlag
       THEN UNCHANGED <<sampleBusyFlag, speakerBusyFlag, hwWorker>>
       ELSE /\ sampleBusyFlag' = TRUE
            /\ speakerBusyFlag' = TRUE
            /\ hwWorker' = "sample"
  /\ UNCHANGED <<devOpen, usage, btnEnabled, batchWorker, lastReq>>
  /\ OnlineUnchanged

\* HkDriver.testSampleBuffer: retOpen = self.openUsb(); on failure
\* self.closeUsb(); return False
testSampleBufferOpen ==
  /\ UNCHANGED gccvars
  /\ UNCHANGED batchvars
  /\ UNCHANGED avars
  /\ UNCHANGED drawvars
  /\ hwWorker = "sample"
  /\ \/ /\ devOpen' = TRUE
        /\ hwWorker' = "sampleOpened"
     \/ /\ closeUsb
        /\ hwWorker' = "sampleReturned"
  /\ UNCHANGED <<usage, btnEnabled, sampleBusyFlag, speakerBusyFlag,
                 batchWorker, lastReq>>
  /\ OnlineUnchanged

\* HkDriver.testSampleBuffer: sample, play, then closeUsb() in except: and
\* in else:
testSampleBufferClose ==
  /\ UNCHANGED gccvars
  /\ UNCHANGED batchvars
  /\ UNCHANGED avars
  /\ UNCHANGED drawvars
  /\ hwWorker = "sampleOpened"
  /\ closeUsb
  /\ hwWorker' = "sampleReturned"
  /\ UNCHANGED <<usage, btnEnabled, sampleBusyFlag, speakerBusyFlag,
                 batchWorker, lastReq>>
  /\ OnlineUnchanged

\* taskCard3ThreadFinished
taskCard3ThreadFinished ==
  /\ UNCHANGED gccvars
  /\ UNCHANGED batchvars
  /\ UNCHANGED avars
  /\ dpc = "idle"
  /\ UNCHANGED drawvars
  /\ hwWorker = "sampleReturned"
  /\ sampleBusyFlag' = FALSE
  /\ speakerBusyFlag' = FALSE
  /\ btnEnabled' = TRUE
  /\ hwWorker' = "none"
  /\ UNCHANGED <<devOpen, usage, batchWorker, lastReq>>
  /\ OnlineUnchanged

(***************************************************************************)
(* ExperimentInterface: the batch task                                     *)
(***************************************************************************)
\* batchStartButtonClicked, start branch: the worker is handed the list of
\* speaker data indices
batchStartButtonClicked ==
  /\ UNCHANGED gccvars
  /\ UNCHANGED avars
  /\ dpc = "idle"
  /\ UNCHANGED drawvars
  /\ IF sampleBusyFlag \/ speakerBusyFlag
       THEN UNCHANGED <<sampleBusyFlag, speakerBusyFlag, batchWorker, batchLeft>>
       ELSE \E valid \in BOOLEAN :
              IF ~valid
                THEN UNCHANGED <<sampleBusyFlag, speakerBusyFlag, batchWorker,
                                 batchLeft>>
                ELSE /\ sampleBusyFlag' = TRUE
                     /\ speakerBusyFlag' = TRUE
                     /\ batchWorker' = "called"
                     /\ batchLeft' \in 1..MaxBatchItems
  /\ UNCHANGED <<sampleFuture, batchRet>>
  /\ UNCHANGED <<devOpen, usage, btnEnabled, hwWorker, lastReq>>
  /\ OnlineUnchanged

\* BatchTask.startBatchTask: with getUsage() == 1 the device is opened, and
\* on a failed open closed again before return False
startBatchTaskOpen ==
  /\ UNCHANGED gccvars
  /\ UNCHANGED avars
  /\ UNCHANGED drawvars
  /\ batchWorker = "called"
  /\ \/ /\ usage = 1
        /\ devOpen' = TRUE
        /\ batchWorker' = "running"
        /\ UNCHANGED batchRet
     \/ /\ usage = 1
        /\ closeUsb
        /\ batchWorker' = "returned"
        /\ batchRet' = "False"
     \/ /\ usage # 1
        /\ UNCHANGED devOpen
        /\ batchWorker' = "running"
        /\ UNCHANGED batchRet
  /\ UNCHANGED <<sampleFuture, batchLeft>>
  /\ UNCHANGED <<usage, btnEnabled, sampleBusyFlag, speakerBusyFlag, hwWorker, lastReq>>
  /\ OnlineUnchanged

\* BatchTask.startBatchTask: one iteration of the loop over the list.  The
\* playback futures are submitted and waited for, their results are never
\* retrieved; with getUsage() == 1 the sampling future is submitted and
\* sampleFuture.result() returns the buffer or re-raises what sampleBuffer
\* raised; anything else in the iteration (getSpeakerDataList, savez) may
\* raise with the sampling future absent or done.
startBatchTaskItem ==
  /\ UNCHANGED gccvars
  /\ UNCHANGED avars
  /\ UNCHANGED drawvars
  /\ batchWorker = "running"
  /\ batchLeft > 0
  /\ \/ /\ sampleFuture' = IF usage = 1 THEN "ok" ELSE "none"
        /\ batchLeft' = batchLeft - 1
        /\ UNCHANGED batchWorker
     \/ /\ usage = 1
        /\ sampleFuture' = "raised"
        /\ batchWorker' = "except"
        /\ UNCHANGED batchLeft
     \/ /\ sampleFuture' \in {"none"} \cup (IF usage = 1 THEN {"ok"} ELSE {})
        /\ batchWorker' = "except"
        /\ UNCHANGED batchLeft
  /\ UNCHANGED batchRet
  /\ UNCHANGED <<devOpen, usage, btnEnabled, sampleBusyFlag, speakerBusyFlag,
                 hwWorker, lastReq>>
  /\ OnlineUnchanged

\* BatchTask.startBatchTask, except: branch.  "if sampleFuture:
\* sampleFuture.result()" precedes closeUsb(): a sampling future that raised
\* raises again here and the exception leaves startBatchTask; otherwise
\* closeUsb() and return False
startBatchTaskExcept ==
  /\ UNCHANGED gccvars
  /\ UNCHANGED avars
  /\ UNCHANGED drawvars
  /\ batchWorker = "except"
  /\ IF sampleFuture = "raised"
       THEN /\ batchWorker' = "raised"
            /\ batchRet' = "raised"
            /\ UNCHANGED devOpen
       ELSE /\ closeUsb
            /\ batchWorker' = "returned"
            /\ batchRet' = "False"
  /\ UNCHANGED <<sampleFuture, batchLeft>>
  /\ UNCHANGED <<usage, btnEnabled, sampleBusyFlag, speakerBusyFlag, hwWorker, lastReq>>
  /\ OnlineUnchanged

\* BatchTask.startBatchTask, else: branch: the list is exhausted, or
\* stopBatchTask cleared _startFlag and the loop took the break; closeUsb()
\* and return True
startBatchTaskClose ==
  /\ UNCHANGED gccvars
  /\ UNCHANGED avars
  /\ UNCHANGED drawvars
  /\ batchWorker = "running"
  /\ closeUsb
  /\ batchWorker' = "returned"
  /\ batchRet' = "True"
  /\ UNCHANGED <<sampleFuture, batchLeft>>
  /\ UNCHANGED <<usage, btnEnabled, sampleBusyFlag, speakerBusyFlag, hwWorker, lastReq>>
  /\ OnlineUnchanged

\* batchStartButtonThreadFinished
batchStartButtonThreadFinished ==
  /\ UNCHANGED gccvars
  /\ UNCHANGED avars
  /\ dpc = "idle"
  /\ UNCHANGED drawvars
  /\ batchWorker = "returned"
  /\ sampleBusyFlag' = FALSE
  /\ speakerBusyFlag' = FALSE
  /\ btnEnabled' = TRUE
  /\ batchWorker' = "none"
  /\ sampleFuture' = "none"
  /\ batchRet' = "none"
  /\ batchLeft' = 0
  /\ UNCHANGED <<devOpen, usage, hwWorker, lastReq>>
  /\ OnlineUnchanged

\* batchStartButtonThreadError: the worker's error signal; the busy flags are
\* cleared and the cards unfrozen, the device is not touched
batchStartButtonThreadError ==
  /\ UNCHANGED gccvars
  /\ UNCHANGED avars
  /\ dpc = "idle"
  /\ UNCHANGED drawvars
  /\ batchWorker = "raised"
  /\ sampleBusyFlag' = FALSE
  /\ speakerBusyFlag' = FALSE
  /\ btnEnabled' = TRUE
  /\ batchWorker' = "none"
  /\ sampleFuture' = "none"
  /\ batchRet' = "none"
  /\ batchLeft' = 0
  /\ UNCHANGED <<devOpen, usage, hwWorker, lastReq>>
  /\ OnlineUnchanged

(***************************************************************************)
(* The array page (view/array_interface): inputs                           *)
(***************************************************************************)
\* an array with the default arms and the given microphone 3
ArmMic(p3, f) ==
  [p |-> << <<0, 0, 0>>, <<ArmLen, 0, 0>>, <<0, ArmLen, 0>>, p3,
            <<0, 0, ArmLen>> >>, f |-> f]

\* a small array, arms of 40 mm
SmallMic(p3) ==
  [p |-> << <<0, 0, 0>>, <<40, 0, 0>>, <<0, 40, 0>>, p3, <<0, 0, 40>> >>,
   f |-> ZeroFine]

\* mics 0,1,2 on one line; mics 0 and 1 at the same place
CollinearMic ==
  [p |-> << <<0, 0, 0>>, <<ArmLen, 0, 0>>, <<160, 0, 0>>,
            <<DiagLen, DiagLen, 0>>, <<0, 0, ArmLen>> >>, f |-> ZeroFine]

CoincidentMic ==
  [p |-> << <<0, 0, 0>>, <<0, 0, 0>>, <<0, ArmLen, 0>>,
            <<DiagLen, DiagLen, 0>>, <<0, 0, ArmLen>> >>, f |-> ZeroFine]

\* mic 4 in the plane of mics 0,1,2
CoplanarMic ==
  [p |-> << <<0, 0, 0>>, <<ArmLen, 0, 0>>, <<0, ArmLen, 0>>,
            <<DiagLen, DiagLen, 0>>, <<100, 100, 0>> >>, f |-> ZeroFine]

\* four microphones only
ShortMic == [p |-> << <<0, 0, 0>>, <<ArmLen, 0, 0>>, <<0, ArmLen, 0>>,
                      <<0, 0, ArmLen>> >>, f |-> ZeroFine]

\* mic 3 clearly outside the tetrahedron: u < 0, u + v + w > 1, w < 0
OutsideMics ==
  { ArmMic(<<0 - DiagLen, DiagLen, 0>>, ZeroFine),
    ArmMic(<<200, 200, 0>>, ZeroFine),
    ArmMic(<<DiagLen, DiagLen, 0 - 10>>, ZeroFine) }

\* mic 3 outside by less than the tolerance: u = -5e-9, u + v + w = 1 + 6e-9
NearlyInsideMics ==
  { ArmMic(<<0, DiagLen, 0>>, <<0 - 1600, 0, 0>>),
    ArmMic(<<160, 160, 0>>, <<1000, 1000, 0>>) }

\* mic 3 outside by more than the tolerance: u = -2e-8, u + v + w = 1 + 1.2e-8
BarelyOutsideMics ==
  { ArmMic(<<0, DiagLen, 0>>, <<0 - 6400, 0, 0>>),
    ArmMic(<<160, 160, 0>>, <<2000, 2000, 0>>) }

\* mic 3 inside or on a face or on a vertex of the tetrahedron
InsideMics ==
  { DefaultMic, SmallMic(<<10, 10, 0>>), SmallMic(<<40, 0, 0>>) }

\* what the user can enter in the coordinate table
MicRequests ==
  InsideMics \cup NearlyInsideMics \cup BarelyOutsideMics \cup OutsideMics
    \cup {CollinearMic, CoincidentMic, CoplanarMic}

CondReq(xl, yl, zl, st) == [x |-> xl, y |-> yl, z |-> zl, st |-> st]

GoodCondRequests ==
  { CondReq(<<0, 40>>, <<0, 40>>, <<0, 0>>, 40),
    CondReq(<<0, 70>>, <<0, 0>>, <<0, 0>>, 40),
    CondReq(<<0 - 60, 60>>, <<0, 0>>, <<60, 60>>, 40),
    CondReq(<<0, 50>>, <<0, 0>>, <<0, 0>>, 50),
    CondReq(<<0 - Metre, 0>>, <<500, 500>>, <<500, 500>>, Metre),
    CondReq(<<20, 20>>, <<20, 20>>, <<20, 20>>, 1) }

BadCondRequests ==
  { CondReq(<<40, 0>>, <<0, 40>>, <<0, 0>>, 40),
    CondReq(<<0, 40>>, <<1, 0>>, <<0, 0>>, 40),
    CondReq(<<0, 40>>, <<0, 40>>, <<1, 0>>, 40),
    CondReq(<<0, 40>>, <<0, 40>>, <<0, 0>>, 0),
    CondReq(<<0, 40>>, <<0, 40>>, <<0, 0>>, 0 - 20),
    CondReq(<<0, 40>>, <<0, 40>>, <<0, 0>>, Metre + 1) }

\* what the user can enter in the constraint table
CondRequests == GoodCondRequests \cup BadCondRequests

\* what the ARRAY/* entries can hold after the file was edited by hand
EditedConfigs ==
  { [present |-> FALSE, mic |-> DefaultMic, xlim |-> DefaultLim,
     ylim |-> DefaultLim, zlim |-> DefaultLim, step |-> DefaultStep],
    ConfigOf(ShortMic, DefaultLim, DefaultLim, DefaultLim, DefaultStep),
    ConfigOf(DefaultMic, DefaultLim, DefaultLim, DefaultLim, 0),
    ConfigOf(CollinearMic, <<1, 0>>, <<0, 0>>, <<0, 0>>, 40),
    ConfigOf(CoplanarMic, <<0, 0>>, <<0, 0>>, <<1, 0>>, 40),
    ConfigOf(ArmMic(<<200, 200, 0>>, ZeroFine), <<0, 40>>, <<0, 0>>,
             <<0, 0>>, 40),
    ConfigOf(DefaultMic, <<0, 40>>, <<0, 0>>, <<5, 4>>, 40),
    ConfigOf(SmallMic(<<10, 10, 0>>), <<0 - 60, 60>>, <<0, 0>>, <<60, 60>>,
             40) }

(***************************************************************************)
(* The array page: handlers                                                *)
(***************************************************************************)
\* ArrayParam.validParamOfConfig: the entries exist, the step is in (0, 1],
\* five microphones of three coordinates, three bounds of two values
validParamOfConfig(cfg) ==
  /\ cfg.present
  /\ ~(cfg.step <= 0 \/ cfg.step > Metre)
  /\ Len(cfg.mic.p) = 5
  /\ \A i \in 1..Len(cfg.mic.p) : Len(cfg.mic.p[i]) = 3
  /\ Len(cfg.xlim) = 2 /\ Len(cfg.ylim) = 2 /\ Len(cfg.zlim) = 2

\* the record of one call of validParamOfGiven
Call(op, mic, xl, yl, zl, st) ==
  [op |-> op, mic |-> mic, xlim |-> xl, ylim |-> yl, zlim |-> zl,
   step |-> st, ret |-> validParamOfGiven(mic, xl, yl, zl, st)]

\* ArrayParam._reset
ResetParams ==
  /\ micCoords' = DefaultMic
  /\ xlim' = DefaultLim /\ ylim' = DefaultLim /\ zlim' = DefaultLim
  /\ step' = DefaultStep

taskstate == <<aStartFlag, dataHolder, dataLen, apc, scanMic, gridPoints,
               idx, results, scanResult, aRet, reportTable, scanFrom, stopAt>>

OtherUnchanged ==
  UNCHANGED <<qvars, taskvars, pagevars, histvars, drawvars, batchvars,
              gccvars>>

\* ArrayParam.loadParamFromConfig: take the entries, validate, reset if invalid
loadParamFromConfig ==
  /\ lastCall' = Call("load", config.mic, config.xlim, config.ylim,
                      config.zlim, config.step)
  /\ IF lastCall'.ret
       THEN /\ micCoords' = config.mic
            /\ xlim' = config.xlim /\ ylim' = config.ylim
            /\ zlim' = config.zlim
            /\ step' = config.step
       ELSE ResetParams

\* arrayReloadButtonClicked
arrayReloadButtonClicked ==
  /\ arrayOps < MaxArrayOps
  /\ arrayWorker = "none"
  /\ arrayOps' = arrayOps + 1
  /\ lastOp' = "reload"
  /\ IF validParamOfConfig(config)
       THEN /\ loadParamFromConfig
            /\ UNCHANGED config
       ELSE /\ ResetParams
            /\ config' = DefaultConfig
            /\ UNCHANGED lastCall
  /\ UNCHANGED <<taskstate, arrayWorker>>
  /\ OtherUnchanged

\* arraySaveButtonClicked: saveParamToConfig
arraySaveButtonClicked ==
  /\ arrayOps < MaxArrayOps
  /\ arrayWorker = "none"
  /\ arrayOps' = arrayOps + 1
  /\ lastOp' = "save"
  /\ config' = ConfigOf(micCoords, xlim, ylim, zlim, step)
  /\ UNCHANGED <<paramvars, taskstate, arrayWorker, lastCall>>
  /\ OtherUnchanged

\* the parameter file is edited outside the program
ConfigEdited ==
  /\ arrayOps < MaxArrayOps
  /\ arrayWorker = "none"
  /\ arrayOps' = arrayOps + 1
  /\ lastOp' = "edit"
  /\ \E cfg \in EditedConfigs : config' = cfg
  /\ UNCHANGED <<paramvars, taskstate, arrayWorker, lastCall>>
  /\ OtherUnchanged

\* a handler that stores the coordinates without validating them
arraySetUnchecked(mic) ==
  /\ lastCall' = Call("set", mic, xlim, ylim, zlim, step)
  /\ micCoords' = mic

\* arraySetStartButtonClicked: validate the table against the stored bounds
\* and step, store the coordinates only if valid
arraySet(mic) ==
  /\ lastCall' = Call("set", mic, xlim, ylim, zlim, step)
  /\ IF lastCall'.ret
       THEN micCoords' = mic
       ELSE UNCHANGED micCoords

arraySetStartButtonClicked ==
  /\ arrayOps < MaxArrayOps
  /\ arrayWorker = "none"
  /\ arrayOps' = arrayOps + 1
  /\ lastOp' = "set"
  /\ \E mic \in MicRequests : arraySet(mic)
  /\ UNCHANGED <<xlim, ylim, zlim, step, config, taskstate, arrayWorker>>
  /\ OtherUnchanged

\* a handler that starts the scan whatever the validator answered
arrayCondUnchecked(req) ==
  /\ lastCall' = Call("cond", micCoords, req.x, req.y, req.z, req.st)
  /\ xlim' = req.x /\ ylim' = req.y /\ zlim' = req.z
  /\ step' = req.st
  /\ arrayWorker' = "running"
  /\ apc' = "called"
  /\ scanFrom' = NoScan
  /\ stopAt' = NoStop
  /\ lastOp' = "cond:started"

\* arrayCondStartButtonClicked: validate the table against the stored
\* coordinates; if valid store bounds and step and start a FunctionWorker
\* that calls startArrayTask
arrayCond(req) ==
  /\ lastCall' = Call("cond", micCoords, req.x, req.y, req.z, req.st)
  /\ IF lastCall'.ret
       THEN /\ xlim' = req.x /\ ylim' = req.y /\ zlim' = req.z
            /\ step' = req.st
            /\ arrayWorker' = "running"
            /\ apc' = "called"
            /\ scanFrom' = NoScan
            /\ stopAt' = NoStop
            /\ lastOp' = "cond:started"
       ELSE /\ UNCHANGED <<xlim, ylim, zlim, step, arrayWorker, apc,
                           scanFrom, stopAt>>
            /\ lastOp' = "cond:rejected"

arrayCondStartButtonClicked ==
  /\ arrayOps < MaxArrayOps
  /\ arrayWorker = "none"
  /\ arrayOps' = arrayOps + 1
  /\ \E req \in CondRequests : arrayCond(req)
  /\ UNCHANGED <<micCoords, config, aStartFlag, dataHolder, dataLen, scanMic,
                 gridPoints, idx, results, scanResult, aRet, reportTable>>
  /\ OtherUnchanged

(***************************************************************************)
(* ArrayTask: the condition-number scan (task/array_task)                  *)
(***************************************************************************)
\* len(np.arange(lo, hi + 0.5 * st, st)) = ceil((hi + st/2 - lo) / st)
AxisCount(lim, st) ==
  LET num == 2 * (lim[2] - lim[1]) + st
  IN  IF num <= 0 THEN 0 ELSE (num + 2 * st - 1) \div (2 * st)

\* np.arange(lo, hi + 0.5 * st, st)
AxisRange(lim, st) == [k \in 1..AxisCount(lim, st) |-> lim[1] + (k - 1) * st]

\* np.stack(np.meshgrid(xRange, yRange, zRange, indexing='ij'),
\*          axis=-1).reshape(-1, 3): x slowest, z fastest
GridOf(xr, yr, zr) ==
  LET ny == Len(yr)
      nz == Len(zr)
  IN  [i \in 1..(Len(xr) * ny * nz) |->
         << xr[(i - 1) \div (ny * nz) + 1],
            yr[(((i - 1) \div nz) % ny) + 1],
            zr[((i - 1) % nz) + 1] >>]

SqDist(a, b) == Dot3(Sub3(a, b), Sub3(a, b))

\* the distance from grid point pt to microphone i is below 0.05 m; the fine
\* offset of microphone 3 decides when the millimetre distance is exactly 50
MicCloserThanMin(mic, i, pt) ==
  LET sq == SqDist(pt, mic.p[i])
  IN  \/ sq < MinMicDist * MinMicDist
      \/ /\ i = 4
         /\ sq = MinMicDist * MinMicDist
         /\ Dot3(Sub3(pt, mic.p[4]), mic.f) > 0

\* a guard that looks at the reference microphone only
TooCloseToReference(mic, pt) == MicCloserThanMin(mic, 1, pt)

\* np.min(dist) < 0.05
TooClose(mic, pt) == \E i \in 1..5 : MicCloserThanMin(mic, i, pt)

\* dist[0] - dist[i] = 0 for microphone i+1 (index i+1 of mic.p)
SameRange(mic, i, pt) ==
  /\ SqDist(pt, mic.p[1]) = SqDist(pt, mic.p[i])
  /\ i = 4 => Dot3(Sub3(pt, mic.p[4]), mic.f) = 0

\* np.linalg.cond(matrixQ, np.inf) is finite.  The rows of Q are
\* (mic[i] - mic[0], dist[0] - dist[i]), i = 1..4.  Q is exactly singular, and
\* cond returns inf, when its last column is zero or when microphone 3 sits on
\* another microphone (a zero row or two equal rows); the first three columns
\* of a valid array have rank 3.
CondFinite(mic, pt) ==
  /\ ~(\A i \in 2..5 : SameRange(mic, i, pt))
  /\ ~(mic.f = ZeroFine /\ \E i \in {1, 2, 3, 5} : mic.p[4] = mic.p[i])

\* the condition number as an ordering value: a stand-in for the float32
\* result of np.linalg.cond, a function of the array and the point
CondValue(mic, pt) ==
  1 + (Abs(SqDist(pt, mic.p[1]) - SqDist(pt, mic.p[2]))
       + Abs(SqDist(pt, mic.p[1]) - SqDist(pt, mic.p[3]))
       + Abs(SqDist(pt, mic.p[1]) - SqDist(pt, mic.p[5]))) \div 1000

\* [*dloc, cond]
Row(mic, pt) == <<pt[1], pt[2], pt[3], CondValue(mic, pt)>>

\* the visited grid point is kept
Kept(mic, pt) == ~TooClose(mic, pt) /\ CondFinite(mic, pt)

\* df.sort_values(by=cond, ascending=True)
SortByCond(rows) == SortSeq(rows, LAMBDA a, b : a[4] < b[4])

pageside == <<paramvars, config, arrayWorker, lastCall, lastOp, arrayOps>>

\* result = None; self._startFlag = True
ArrBegin ==
  /\ apc = "called"
  /\ scanResult' = <<>>
  /\ aStartFlag' = TRUE
  /\ aRet' = "none"
  /\ apc' = "check"
  /\ UNCHANGED <<dataHolder, dataLen, scanMic, gridPoints, idx, results,
                 reportTable, scanFrom, stopAt, pageside>>
  /\ OtherUnchanged

\* if self._startFlag: result = self.arrayScanCond()
ArrCheck ==
  /\ apc = "check"
  /\ apc' = IF aStartFlag THEN "grid" ELSE "flagOff"
  /\ UNCHANGED <<aStartFlag, dataHolder, dataLen, scanMic, gridPoints, idx,
                 results, scanResult, aRet, reportTable, scanFrom, stopAt,
                 pageside>>
  /\ OtherUnchanged

\* arrayScanCond reads the parameters and builds the grid
ScanGrid ==
  /\ apc = "grid"
  /\ scanMic' = micCoords
  /\ gridPoints' = GridOf(AxisRange(xlim, step), AxisRange(ylim, step),
                          AxisRange(zlim, step))
  /\ scanFrom' = [started |-> TRUE, mic |-> micCoords, xlim |-> xlim,
                  ylim |-> ylim, zlim |-> zlim, step |-> step]
  /\ idx' = 0
  /\ results' = <<>>
  /\ apc' = "loop1"
  /\ UNCHANGED <<aStartFlag, dataHolder, dataLen, scanResult, aRet,
                 reportTable, stopAt, pageside>>
  /\ OtherUnchanged

\* building the grid raises (np.arange or np.meshgrid: MemoryError for a
\* fine step); the exception leaves startArrayTask
ScanGridRaise ==
  /\ apc = "grid"
  /\ aRet' = "raised"
  /\ apc' = "raised"
  /\ UNCHANGED <<aStartFlag, dataHolder, dataLen, scanMic, gridPoints, idx,
                 results, scanResult, reportTable, scanFrom, stopAt, pageside>>
  /\ OtherUnchanged

\* the first loop: the differential ranges of every grid point, with the
\* flag check at each point
ScanLoop1 ==
  /\ apc = "loop1"
  /\ IF idx < Len(gridPoints) /\ aStartFlag
       THEN /\ idx' = idx + 1
            /\ apc' = "loop1"
       ELSE /\ idx' = 0
            /\ apc' = "loop2"
  /\ UNCHANGED <<aStartFlag, dataHolder, dataLen, scanMic, gridPoints,
                 results, scanResult, aRet, reportTable, scanFrom, stopAt,
                 pageside>>
  /\ OtherUnchanged

\* the second loop: flag check, distance guard, condition number
ScanLoop2 ==
  /\ apc = "loop2"
  /\ idx < Len(gridPoints) /\ aStartFlag
  /\ idx' = idx + 1
  /\ results' = IF Kept(scanMic, gridPoints[idx + 1])
                  THEN Append(results, Row(scanMic, gridPoints[idx + 1]))
                  ELSE results
  /\ UNCHANGED <<aStartFlag, dataHolder, dataLen, apc, scanMic, gridPoints,
                 scanResult, aRet, reportTable, scanFrom, stopAt, pageside>>
  /\ OtherUnchanged

\* the second loop ends or breaks: return None or np.array(results)
ScanReturn ==
  /\ apc = "loop2"
  /\ ~(idx < Len(gridPoints) /\ aStartFlag)
  /\ scanResult' = results
  /\ apc' = "flagOff"
  /\ UNCHANGED <<aStartFlag, dataHolder, dataLen, scanMic, gridPoints, idx,
                 results, aRet, reportTable, scanFrom, stopAt, pageside>>
  /\ OtherUnchanged

\* self._startFlag = False
ArrFlagOff ==
  /\ apc = "flagOff"
  /\ aStartFlag' = FALSE
  /\ apc' = "store"
  /\ UNCHANGED <<dataHolder, dataLen, scanMic, gridPoints, idx, results,
                 scanResult, aRet, reportTable, scanFrom, stopAt, pageside>>
  /\ OtherUnchanged

\* if result is not None and len(result) > 0: store it; else clear, return False
ArrStore ==
  /\ apc = "store"
  /\ IF Len(scanResult) > 0
       THEN /\ dataHolder' = scanResult
            /\ dataLen' = Len(scanResult)
            /\ apc' = "report"
            /\ UNCHANGED aRet
       ELSE /\ dataHolder' = <<>>
            /\ dataLen' = 0
            /\ aRet' = "False"
            /\ apc' = "returned"
  /\ UNCHANGED <<aStartFlag, scanMic, gridPoints, idx, results, scanResult,
                 reportTable, scanFrom, stopAt, pageside>>
  /\ OtherUnchanged

\* a report written in scan order
saveReportUnsorted(data) == reportTable' = data

\* ArrayTask.saveReport: the sorted table is handed to to_excel
saveReport(data) == reportTable' = SortByCond(data)

\* self.saveReport(result, reportPath); return True
ArrReport ==
  /\ apc = "report"
  /\ saveReport(scanResult)
  /\ aRet' = "True"
  /\ apc' = "returned"
  /\ UNCHANGED <<aStartFlag, dataHolder, dataLen, scanMic, gridPoints, idx,
                 results, scanResult, scanFrom, stopAt, pageside>>
  /\ OtherUnchanged

\* to_excel raises (the file is open elsewhere, the directory is read-only,
\* openpyxl is missing); the exception leaves startArrayTask
ArrReportRaise ==
  /\ apc = "report"
  /\ saveReport(scanResult)
  /\ aRet' = "raised"
  /\ apc' = "raised"
  /\ UNCHANGED <<aStartFlag, dataHolder, dataLen, scanMic, gridPoints, idx,
                 results, scanResult, scanFrom, stopAt, pageside>>
  /\ OtherUnchanged

startArrayTask ==
  \/ ArrBegin
  \/ ArrCheck
  \/ ScanGrid
  \/ ScanGridRaise
  \/ ScanLoop1
  \/ ScanLoop2
  \/ ScanReturn
  \/ ArrFlagOff
  \/ ArrStore
  \/ ArrReport
  \/ ArrReportRaise

\* ArrayTask.stopArrayTask, called while startArrayTask is running
stopArrayTask ==
  /\ apc \in {"check", "grid", "loop1", "loop2"}
  /\ aStartFlag
  /\ aStartFlag' = FALSE
  /\ stopAt' = [loop |-> IF apc = "loop2" THEN 2 ELSE 1, idx |-> idx]
  /\ UNCHANGED <<dataHolder, dataLen, apc, scanMic, gridPoints, idx, results,
                 scanResult, aRet, reportTable, scanFrom, pageside>>
  /\ OtherUnchanged

\* arrayCondStartButtonThreadFinished
arrayCondStartButtonThreadFinished ==
  /\ arrayWorker = "running"
  /\ apc = "returned"
  /\ arrayWorker' = "none"
  /\ apc' = "idle"
  /\ UNCHANGED <<paramvars, config, lastCall, lastOp, arrayOps, aStartFlag,
                 dataHolder, dataLen, scanMic, gridPoints, idx, results,
                 scanResult, aRet, reportTable, scanFrom, stopAt>>
  /\ OtherUnchanged

\* arrayCondStartButtonThreadError
arrayCondStartButtonThreadError ==
  /\ arrayWorker = "running"
  /\ apc = "raised"
  /\ arrayWorker' = "none"
  /\ apc' = "idle"
  /\ UNCHANGED <<paramvars, config, lastCall, lastOp, arrayOps, aStartFlag,
                 dataHolder, dataLen, scanMic, gridPoints, idx, results,
                 scanResult, aRet, reportTable, scanFrom, stopAt>>
  /\ OtherUnchanged

ArrayPage ==
  \/ arrayReloadButtonClicked
  \/ arraySaveButtonClicked
  \/ ConfigEdited
  \/ arraySetStartButtonClicked
  \/ arrayCondStartButtonClicked
  \/ arrayCondStartButtonThreadFinished
  \/ arrayCondStartButtonThreadError

(***************************************************************************)
(* The program                                                             *)
(***************************************************************************)
Init ==
  /\ maxLength = FilterLen
  /\ recQueue = ZeroQueue(FilterLen)
  /\ queueLen = 0
  /\ queueTail = -1
  /\ pushLog = <<>>
  /\ opCount = 0
  /\ InitTask
  /\ InitPages
  /\ InitHist
  /\ InitDraw
  /\ InitArray
  /\ sampleFuture = "none"
  /\ batchRet = "none"
  /\ batchLeft = 0
  /\ signal = [ch \in 1..microphoneNum |-> <<0, 0, 0, 0>>]
  /\ pY = [ch \in 1..microphoneNum |-> [k \in 1..(NumSamples \div 2 + 1) |-> 0]]
  /\ normalized = [done |-> FALSE]
  /\ onlineOut = [done |-> FALSE]
  /\ offlineOut = [done |-> FALSE]

HardwarePage ==
  \/ sampleUsageSwitchButtonChanged
  \/ taskCard1Clicked
  \/ testUsbConnectOpen
  \/ testUsbConnectClose
  \/ taskCard1ThreadFinished
  \/ taskCard3Clicked
  \/ testSampleBufferOpen
  \/ testSampleBufferClose
  \/ taskCard3ThreadFinished

ExperimentPage ==
  \/ batchStartButtonClicked
  \/ startBatchTaskOpen
  \/ startBatchTaskItem
  \/ startBatchTaskExcept
  \/ startBatchTaskClose
  \/ batchStartButtonThreadFinished
  \/ batchStartButtonThreadError

Next ==
  \/ producerThreadFunction
  \/ startOnlineTask
  \/ onlineStartButtonClicked
  \/ onlineStartButtonThreadFinished
  \/ drawOnlineStep
  \/ HardwarePage
  \/ ExperimentPage

Spec == Init /\ [][Next]_vars

\* the array page and its scan, the other pages idle
NextA ==
  \/ ArrayPage
  \/ startArrayTask
  \/ stopArrayTask

\* one setting of the sampling switch (HK/USAGE), which the array page never reads
InitA == Init /\ usage = 1

SpecA == InitA /\ [][NextA]_vars

(***************************************************************************)
(* Properties of the online session                                        *)
(***************************************************************************)
\* startOnlineTask is between its call and its return
InSession == cpc \notin {"idle", "returned"}

\* C1: whenever startOnlineTask has returned, closeUsb was called after the
\* session's openUsb call and the device is closed.
C1_ClosedOnEveryReturn ==
  cpc = "returned" => (closedAfterOpen /\ ~devOpen)

\* C1 witness: a session that launched its producer has returned through the
\* except: branch with the device closed
C1_Witness ==
  /\ cpc = "returned" /\ outcome = "except" /\ launched = 1
  /\ closedAfterOpen /\ ~devOpen

\* C3: in a session that launched a producer, the producer has terminated
\* when the queue is cleared, when closeUsb is called and when startOnlineTask
\* returns; the device is open as long as the producer can call sampleBuffer.
C3_JoinBeforeCleanup ==
  /\ (launched >= 1 /\ cpc \in {"clear", "close", "returned"}) => ~ProducerAlive
  /\ ProducerAlive => devOpen

\* C3 witness: the consumer is about to clear the queue after a join that
\* had to wait for a producer that ended on a push timeout
C3_Witness ==
  /\ cpc = "clear" /\ launched = 1 /\ ppc = "done"
  /\ prodExit = "pushTimeout" /\ devOpen

\* C5: once the consumer's pop has timed out, the session only runs its
\* cleanup (no further pop): the run flag is cleared, then the producer is
\* joined, then the queue is cleared, then the device is closed, and the
\* return value is False.
C5_PopTimeoutAborts ==
  timedOut =>
    /\ cpc \in {"flagOff", "join", "clear", "close", "returned", "idle"}
    /\ outcome = "except"
    /\ cpc \in {"join", "clear", "close", "returned"} => ~startFlag
    /\ cpc \in {"clear", "close", "returned"} => ~ProducerAlive
    /\ cpc \in {"close", "returned"} => dataQueue = <<>>
    /\ cpc = "returned" => (~devOpen /\ ~retVal)

\* C5 witness: a session whose pop timed out after some frames were processed
\* has returned False
C5_Witness ==
  /\ timedOut /\ cpc = "returned" /\ ~retVal /\ proc >= 1 /\ ~devOpen

\* C6: after openUsb returned a non-zero status the run flag is never set,
\* no producer is started, no frame is acquired or processed, the open is not
\* repeated, and startOnlineTask returns False after calling closeUsb.
C6_OpenFailure ==
  outcome = "openFail" =>
    /\ cpc \in {"openFailClose", "returned", "idle"}
    /\ ~startFlag
    /\ launched = 0 /\ ppc = "none"
    /\ acq = 0 /\ proc = 0 /\ result = NoResult
    /\ cpc = "returned" => (~retVal /\ closedAfterOpen)

\* C6 witness: the second session failed to open the device and returned
C6_Witness ==
  /\ outcome = "openFail" /\ cpc = "returned" /\ sess = 2
  /\ closedAfterOpen /\ ~retVal

\* C7: whenever startOnlineTask has returned the run flag is False, no
\* producer is alive and the queue is empty; the next call starts from that
\* state, and every frame handed to onlineProcessData was acquired in the
\* current session.
C7_CleanAfterReturn ==
  /\ (sess >= 1 /\ cpc \in {"returned", "idle", "called"}) =>
       (~startFlag /\ ~ProducerAlive /\ dataQueue = <<>>)
  /\ cpc \in {"process", "emit"} => cur.sess = sess

\* C7 witness: the second session processes one of its own frames after a
\* first session that acquired more frames than it processed
C7_Witness ==
  /\ sess = 2 /\ cpc = "process" /\ cur.sess = 2
  /\ retVal /\ dataQueue # <<>>

\* the producer loop ended on an exception (acquisition or push timeout)
ProducerFailed == prodExit \in {"acqRaise", "pushTimeout"}

DeviceInUse ==
  \/ active > 0
  \/ batchWorker \in {"called", "running", "except"}
  \/ hwWorker \in {"usb", "usbOpened", "sample", "sampleOpened"}

\* C8: at most one startOnlineTask execution is in progress, and a start
\* request made while the device is in use is answered with the busy warning
\* and starts nothing: no worker, no call of startOnlineTask, no openUsb.
C8_SingleSession ==
  [][ /\ active' <= 1
      /\ (lastReq' # lastReq /\ DeviceInUse) =>
           /\ lastReq' = "online:busy"
           /\ UNCHANGED <<devOpen, active, sess, cpc, ppc, onlineWorker,
                          sampleBusyFlag, startFlag>> ]_vars

\* C8 witness: a start request was rejected while an online session had the
\* device open
C8_Witness ==
  /\ lastReq = "online:busy" /\ active = 1 /\ devOpen
  /\ onlineWorker = "running" /\ sess = 1

\* C9: in every session the i-th processed frame yields the sentinel exactly
\* when i < K, and a computed estimate from the K-th frame on.
C9_WarmUp ==
  cpc = "emit" =>
    /\ result.kind \in {"sentinel", "computed"}
    /\ result.kind = "sentinel" <=> proc < FilterLen

\* C9 witness: the K-th frame of the second session yields a computed estimate
C9_Witness ==
  /\ cpc = "emit" /\ sess = 2 /\ proc = FilterLen
  /\ result.kind = "computed"

\* C11: the step callback is emitted for a processed frame only if the draw
\* flag is True when the consumer checks it, and at most once per frame (the
\* check is reached once per processed frame and one emission leaves it); a
\* frame processed while the flag is False emits nothing, but it has been
\* pushed into the median filter and counts toward the warm-up.
C11_DrawFlag ==
  [][ /\ pendingSteps' > pendingSteps =>
           /\ cpc = "emit" /\ cpc' = "loop"
           /\ drawFlag
           /\ pendingSteps' = pendingSteps + 1
      /\ (cpc = "emit" /\ cpc' # "emit" /\ ~drawFlag) =>
           pendingSteps' = pendingSteps
      /\ (cpc # "emit" /\ cpc' = "emit") =>
           /\ proc' = proc + 1
           /\ queueLen' = Min(queueLen + 1, FilterLen)
           /\ pushLog' = LastK(Append(pushLog, TauOfFrame(cur)), FilterLen)
           /\ result'.kind = "sentinel" <=> proc' < FilterLen
    ]_vars

\* C11 witness: the K-th frame was processed while drawOnlineStep held the
\* flag False; it completed the warm-up and no callback is pending for it
C11_Witness ==
  /\ cpc = "emit" /\ ~drawFlag
  /\ proc = FilterLen /\ queueLen = FilterLen
  /\ result.kind = "computed"
  /\ pendingSteps = 0

(***************************************************************************)
(* Liveness: the threads keep running, the worker's signal is delivered    *)
(***************************************************************************)
FairSpec ==
  /\ Spec
  /\ WF_vars(producerThreadFunction)
  /\ WF_vars(startOnlineTask)
  /\ WF_vars(onlineStartButtonThreadFinished)
  /\ WF_vars(drawOnlineStep)

\* C2: a stop request made while the run flag is True leads to the return of
\* startOnlineTask with the producer exited and the device closed; after the
\* request there is at most one acquisition, one push wait and one pop wait.
C2_StopCompletes ==
  /\ [](afterStop.acq <= 1 /\ afterStop.push <= 1 /\ afterStop.pop <= 1)
  /\ (stopReq /\ InSession) ~> (cpc = "returned" /\ ~ProducerAlive /\ ~devOpen)

\* C2 witness: after a stop request the producer made its last acquisition
\* and push, the consumer its last pop, and the session returned True
C2_Witness ==
  /\ stopReq /\ cpc = "returned" /\ retVal /\ ~devOpen /\ ppc = "done"
  /\ afterStop.acq = 1 /\ afterStop.push = 1 /\ afterStop.pop = 1

(***************************************************************************)
(* Properties of RecordingQueue4D                                          *)
(***************************************************************************)
\* number of entries of s that differ from v
CountOther(s, v) == Cardinality({i \in 1..Len(s) : s[i] # v})

\* the last maxLength pushes, with no clear in between, were all v
PushedSame(v) == Len(pushLog) = maxLength /\ CountOther(pushLog, v) = 0

\* the last maxLength pushes were v except for one outlier at any position
PushedOneOutlier(v) == Len(pushLog) = maxLength /\ CountOther(pushLog, v) = 1

\* C10 as stated: for every capacity K (with K-1 >= 1 identical vectors in
\* the outlier case), K equal pushes give that vector as the median and K-1
\* equal pushes plus one outlier give the repeated vector.
C10_Original ==
  \A v \in TauSet :
    /\ PushedSame(v) => getMedian2(recQueue) = Double(v)
    /\ (maxLength >= 2 /\ PushedOneOutlier(v)) => getMedian2(recQueue) = Double(v)

\* C10 as amended: the outlier case holds for capacities K >= 3 (for K = 2
\* np.median is the mean of the vector and the outlier).
C10_MedianConvergence ==
  \A v \in TauSet :
    /\ PushedSame(v) => getMedian2(recQueue) = Double(v)
    /\ (maxLength >= 3 /\ PushedOneOutlier(v)) => getMedian2(recQueue) = Double(v)

\* C10 witness: a queue of capacity 5 whose ring has wrapped holds four equal
\* vectors and one outlier in the middle of the last five pushes, and the
\* median is the repeated vector
C10_Witness ==
  /\ maxLength = 5 /\ opCount = 7 /\ queueTail = 1
  /\ pushLog = << <<2, -1, 3, 1>>, <<2, -1, 3, 1>>, <<-4, 5, -2, 7>>,
                  <<2, -1, 3, 1>>, <<2, -1, 3, 1>> >>
  /\ getMedian2(recQueue) = <<4, -2, 6, 2>>

(***************************************************************************)
(* Properties of the array scan and of the array page                      *)
(***************************************************************************)
\* startArrayTask has returned or has been left by an exception
ArrEnded == apc \in {"returned", "raised"}

\* grid point pt is at 0.05 m or more from every microphone
FarFromAllMics(mic, pt) == \A i \in 1..5 : ~MicCloserThanMin(mic, i, pt)

\* the rows of the first n grid points that are far from all microphones and
\* have a finite condition number, in scan order
RECURSIVE SurvivorsOf(_, _, _)
SurvivorsOf(mic, grid, n) ==
  IF n = 0 THEN <<>>
  ELSE IF FarFromAllMics(mic, grid[n]) /\ CondFinite(mic, grid[n])
         THEN Append(SurvivorsOf(mic, grid, n - 1), Row(mic, grid[n]))
         ELSE SurvivorsOf(mic, grid, n - 1)

\* C12: when stopArrayTask is called while a scan is running, the scan stops
\* at its next flag check without evaluating further points; the survivors
\* among the points visited before are stored and startArrayTask returns True;
\* there is no result only if no point survived.
C12_StopKeepsPartial ==
  (ArrEnded /\ scanFrom.started /\ stopAt.loop > 0) =>
    /\ idx = (IF stopAt.loop = 2 THEN stopAt.idx ELSE 0)
    /\ results = SurvivorsOf(scanMic, gridPoints, idx)
    /\ Len(results) > 0 =>
         /\ aRet = "True"
         /\ dataHolder = results
         /\ dataLen = Len(results)
    /\ aRet # "True" => Len(results) = 0

\* the part of C12 that does not depend on the report being written
C12_ExceptReport ==
  (ArrEnded /\ scanFrom.started /\ stopAt.loop > 0) =>
    /\ idx = (IF stopAt.loop = 2 THEN stopAt.idx ELSE 0)
    /\ results = SurvivorsOf(scanMic, gridPoints, idx)
    /\ Len(results) > 0 =>
         /\ dataHolder = results
         /\ dataLen = Len(results)
         /\ aRet \in {"True", "raised"}
    /\ aRet = "False" => Len(results) = 0

\* the values lo + k*s (k = 0, 1, ...) that do not exceed hi
AxisValues(lim, st) ==
  { lim[1] + k * st : k \in 0..((lim[2] - lim[1]) \div st) }

\* C13: on every axis the scanner enumerates exactly the values lower + k*s
\* that do not exceed upper, so every grid point lies in the inclusive box.
C13_GridInsideBox ==
  (scanFrom.started /\ apc \in {"loop1", "loop2"}) =>
    /\ \A i \in 1..Len(gridPoints) :
         /\ scanFrom.xlim[1] <= gridPoints[i][1]
         /\ gridPoints[i][1] <= scanFrom.xlim[2]
         /\ scanFrom.ylim[1] <= gridPoints[i][2]
         /\ gridPoints[i][2] <= scanFrom.ylim[2]
         /\ scanFrom.zlim[1] <= gridPoints[i][3]
         /\ gridPoints[i][3] <= scanFrom.zlim[2]
    /\ {gridPoints[i][1] : i \in 1..Len(gridPoints)}
         = AxisValues(scanFrom.xlim, scanFrom.step)
    /\ {gridPoints[i][2] : i \in 1..Len(gridPoints)}
         = AxisValues(scanFrom.ylim, scanFrom.step)
    /\ {gridPoints[i][3] : i \in 1..Len(gridPoints)}
         = AxisValues(scanFrom.zlim, scanFrom.step)

\* the rows of a result, as a set
RowSet(rows) == {rows[i] : i \in 1..Len(rows)}

\* C14: no row of the scan result lies below 0.05 m from any of the five
\* microphones, and every visited grid point that is at 0.05 m or more from
\* all of them and has a finite condition number is in the result.
C14_NearFieldGuard ==
  (scanFrom.started /\ apc \in {"loop2", "flagOff", "store", "report",
                                "returned", "raised"}) =>
    /\ \A r \in RowSet(results) :
         FarFromAllMics(scanMic, <<r[1], r[2], r[3]>>)
    /\ \A k \in 1..idx :
         (FarFromAllMics(scanMic, gridPoints[k])
            /\ CondFinite(scanMic, gridPoints[k]))
           => Row(scanMic, gridPoints[k]) \in RowSet(results)

\* C14 witness: a finished scan of the default array that dropped the grid
\* point on microphone 0 and kept the point at exactly 0.05 m from it
C14_Witness ==
  /\ apc = "returned" /\ aRet = "True"
  /\ scanMic = DefaultMic
  /\ gridPoints = << <<0, 0, 0>>, <<MinMicDist, 0, 0>> >>
  /\ idx = 2
  /\ Len(results) = 1
  /\ results[1][1] = MinMicDist

\* number of occurrences of row r in rows
CountRow(rows, r) == Cardinality({i \in 1..Len(rows) : rows[i] = r})

\* saveReport was called in the current startArrayTask
ReportHanded == ArrEnded /\ scanFrom.started /\ Len(scanResult) > 0

\* C15: the table handed to the report writer holds exactly the rows of the
\* scan result (same multiset) in non-decreasing order of condition number.
C15_ReportSorted ==
  ReportHanded =>
    /\ Len(reportTable) = Len(scanResult)
    /\ \A r \in RowSet(scanResult) \cup RowSet(reportTable) :
         CountRow(reportTable, r) = CountRow(scanResult, r)
    /\ \A i \in 1..(Len(reportTable) - 1) :
         reportTable[i][4] <= reportTable[i + 1][4]

\* C15 witness: a report whose rows had to be reordered
C15_Witness ==
  /\ ReportHanded
  /\ Len(scanResult) >= 2
  /\ reportTable # scanResult

\* a call of the validator with lower > upper on some axis or a step outside
\* (0, 1]
BadRange(c) ==
  \/ c.xlim[1] > c.xlim[2] \/ c.ylim[1] > c.ylim[2] \/ c.zlim[1] > c.zlim[2]
  \/ c.step <= 0 \/ c.step > Metre

\* C16: validParamOfGiven returns False whenever an axis has lower > upper or
\* the step is <= 0 or > 1, whatever the microphones are; the array page then
\* neither stores the bounds and step nor starts a scan.
C16_RejectsBadRange ==
  /\ [](lastCall.op # "none" /\ BadRange(lastCall) => ~lastCall.ret)
  /\ [][ (arrayOps' # arrayOps /\ lastOp' \in {"cond:started", "cond:rejected"}
            /\ BadRange(lastCall'))
         => /\ UNCHANGED <<xlim, ylim, zlim, step>>
            /\ arrayWorker' = arrayWorker
            /\ apc' = apc ]_vars

\* C16 witness: a start request with a bad range was rejected
C16_Witness ==
  /\ lastOp = "cond:rejected"
  /\ lastCall.op = "cond" /\ BadRange(lastCall)
  /\ lastCall.step > Metre
  /\ arrayWorker = "none" /\ apc = "idle"

\* an array with the default arms: microphone 3 at (x, y, z) has the
\* barycentric coordinates u = x/ArmLen, v = y/ArmLen, w = z/ArmLen
IsArmMic(mic) ==
  /\ Len(mic.p) = 5
  /\ mic = ArmMic(mic.p[4], mic.f)

\* coordinate k of microphone 3 is below -t fine units
CoordBelow(mic, k, t) ==
  mic.p[4][k] < 0 \/ (mic.p[4][k] = 0 /\ mic.f[k] < 0 - t)

\* the coordinates of microphone 3 sum to more than ArmLen plus t fine units
SumAbove(mic, t) ==
  LET s == mic.p[4][1] + mic.p[4][2] + mic.p[4][3]
  IN  s > ArmLen \/ (s = ArmLen /\ mic.f[1] + mic.f[2] + mic.f[3] > t)

\* microphone 3 of an arm array is outside the tetrahedron by more than
\* the ratio t / FinePerMm in some barycentric coordinate
OutsideBy(mic, t) ==
  /\ IsArmMic(mic)
  /\ \/ \E k \in 1..3 : CoordBelow(mic, k, t * ArmLen)
     \/ SumAbove(mic, t * ArmLen)

DefaultCall(c) ==
  /\ c.mic = DefaultMic
  /\ c.xlim = DefaultLim /\ c.ylim = DefaultLim /\ c.zlim = DefaultLim
  /\ c.step = DefaultStep

\* C17 as stated: with well-formed bounds and step the validator returns
\* False for collinear or coincident mics 0,1,2, for mic 4 in their plane and
\* for mic 3 outside the tetrahedron (a negative barycentric coordinate or
\* u+v+w > 1), and True for the default configuration.
C17_Original ==
  (lastCall.op # "none" /\ ~BadRange(lastCall)) =>
    /\ lastCall.mic \in {CollinearMic, CoincidentMic, CoplanarMic}
         => ~lastCall.ret
    /\ OutsideBy(lastCall.mic, 0) => ~lastCall.ret
    /\ DefaultCall(lastCall) => lastCall.ret

\* C17 amended: as C17, with mic 3 outside the tetrahedron by more than the
\* tolerance (a barycentric coordinate below -1e-8 or u+v+w above 1 + 1e-8).
C17_GeometryRules ==
  (lastCall.op # "none" /\ ~BadRange(lastCall)) =>
    /\ lastCall.mic \in {CollinearMic, CoincidentMic, CoplanarMic}
         => ~lastCall.ret
    /\ OutsideBy(lastCall.mic, EpsFine) => ~lastCall.ret
    /\ DefaultCall(lastCall) => lastCall.ret

\* C17 witness: the validator has rejected an array whose microphone 3 is
\* outside by 1.2e-8 in u + v + w
C17_Witness ==
  /\ lastCall.op = "set" /\ ~BadRange(lastCall)
  /\ lastCall.mic = ArmMic(<<160, 160, 0>>, <<2000, 2000, 0>>)
  /\ ~lastCall.ret

C19_FailureIsFalse ==
  (ArrEnded /\ aRet # "True") =>
    /\ aRet = "False"
    /\ dataHolder = <<>> /\ dataLen = 0
    /\ ~aStartFlag

(***************************************************************************)
(* Properties of the stop request and of the frame queue                   *)
(***************************************************************************)
\* the session opened the device, was stopped by stopOnlineTask and nothing
\* failed: the producer left its loop on the flag, processing did not raise,
\* and a pop that timed out did so after the stop request, with the producer
\* acquiring and pushing nothing after the request
StoppedOnly ==
  /\ cpc = "returned"
  /\ launched = 1
  /\ stopReq
  /\ prodExit = "flag"
  /\ ~(outcome = "except" /\ ~timedOut)
  /\ timedOut => afterStop = [acq |-> 0, push |-> 0, pop |-> 1]

\* C22: an online session that opened the device and is ended only by
\* stopOnlineTask returns True, for every interleaving of the stop request
\* with the producer and the consumer.
C22_StopReturnsTrue == StoppedOnly => retVal

\* C23: a stop request made at any time after the worker was started is not
\* lost: while startOnlineTask runs and the toggle is enabled, the toggle is
\* in the position from which a click stops the session.
C23_StopNeverLost ==
  (InSession /\ onlineWorker = "running" /\ btnEnabled) => ~btnChecked

\* C24: the consumer processes the frames in the order the producer acquired
\* them, each at most once and none skipped while the session runs; frames
\* still queued when the session ends are discarded, never processed.
C24_FifoOrder ==
  /\ [](InSession =>
          /\ \A i \in 1..Len(dataQueue) :
               dataQueue[i] = [sess |-> sess, seq |-> cur.seq + i]
          /\ cur.seq + Len(dataQueue) <= acq
          /\ cur.seq > 0 => cur.sess = sess
          /\ proc <= cur.seq /\ cur.seq <= proc + 1
          /\ cpc \in {"emit", "loop", "get"} => proc = cur.seq)
  /\ [](cpc = "returned" => dataQueue = <<>>)
  /\ [][ (proc' # proc /\ sess' = sess) =>
           /\ cpc = "process"
           /\ proc' = proc + 1
           /\ cur = [sess |-> sess, seq |-> proc'] ]_vars

\* C24 witness: the session ends after three processed frames with acquired
\* frames still in the queue, which the cleanup is about to discard
C24_Witness ==
  /\ cpc = "clear" /\ proc = 3 /\ cur.seq = 3
  /\ Len(dataQueue) = 2
  /\ dataQueue[1].seq = 4 /\ dataQueue[2].seq = 5

\* C25: the frame queue never holds more than 3 frames; a producer that
\* finds it full leaves it unchanged and gives up at its timeout, and a
\* producer step changes the queue only by appending its frame to a queue
\* that is not full.
C25_BoundedQueue ==
  /\ [](Len(dataQueue) <= QueueMaxSize)
  /\ [][ (ProducerAlive /\ ppc' # ppc) =>
           \/ dataQueue' = dataQueue
           \/ /\ Len(dataQueue) < QueueMaxSize
              /\ dataQueue' = Append(dataQueue, held) ]_vars
  /\ [][ (ppc = "put" /\ ppc' # ppc /\ Len(dataQueue) = QueueMaxSize) =>
           /\ dataQueue' = dataQueue
           /\ ppc' = "done" /\ prodExit' = "pushTimeout" ]_vars

\* C25 witness: the producer gave up on a full queue, whose three frames are
\* still the ones queued before
C25_Witness ==
  /\ prodExit = "pushTimeout" /\ ppc = "done"
  /\ Len(dataQueue) = QueueMaxSize
  /\ held.seq = dataQueue[QueueMaxSize].seq + 1

(***************************************************************************)
(* Properties of the ring buffer                                           *)
(***************************************************************************)
\* C26: isFull() is True iff at least K pushes happened since construction
\* or the last clear; when full, the K columns are exactly the last K pushed
\* vectors, the oldest one in the column the next push overwrites; after
\* clear the queue is as freshly constructed.
C26_RingBuffer ==
  /\ isFull(queueLen, maxLength) <=> Len(pushLog) = maxLength
  /\ queueLen = Len(pushLog)
  /\ isFull(queueLen, maxLength) =>
       \A j \in 1..maxLength :
         recQueue[((queueTail + j) % maxLength) + 1] = pushLog[j]
  /\ pushLog = <<>> =>
       /\ recQueue = ZeroQueue(maxLength)
       /\ queueLen = 0
       /\ queueTail = -1

\* C26 witness: a queue of capacity 3 after five pushes: the ring has
\* wrapped and its columns hold pushes 3, 4 and 5
C26_Witness ==
  /\ maxLength = 3 /\ opCount = 5
  /\ isFull(queueLen, maxLength) /\ queueTail = 1
  /\ pushLog = << <<0, 0, 0, 0>>, <<2, -1, 3, 1>>, <<-4, 5, -2, 7>> >>
  /\ recQueue = << <<2, -1, 3, 1>>, <<-4, 5, -2, 7>>, <<0, 0, 0, 0>> >>

(***************************************************************************)
(* Properties of the stored scan result                                    *)
(***************************************************************************)
\* C29: after any startArrayTask call getDataLen() is the number of rows of
\* getDataHolder() (0 with None); the call returned True iff it stored a
\* non-empty result; a scan that yields no result removes the result of an
\* earlier scan.
C29_StoredResult ==
  ArrEnded =>
    /\ dataLen = Len(dataHolder)
    /\ aRet = "True" <=> (Len(scanResult) > 0 /\ dataHolder = scanResult)
    /\ aRet # "True" => dataHolder = <<>>

\* the part of C29 that holds whenever startArrayTask returns
C29_WhenReturned ==
  apc = "returned" =>
    /\ dataLen = Len(dataHolder)
    /\ aRet \in {"True", "False"}
    /\ aRet = "True" <=> (Len(scanResult) > 0 /\ dataHolder = scanResult)
    /\ aRet # "True" => dataHolder = <<>>


(***************************************************************************)
(* Properties of the batch task                                            *)
(***************************************************************************)
\* startBatchTask is over: it returned, or an exception left it
BatchEnded == batchWorker \in {"returned", "raised"}

\* C30: once startBatchTask is over, the sampling device is closed and the
\* call has produced a boolean, whichever path it took, the paths on which
\* the sampling future or a playback future raised included.
C30_ClosedOnEveryExit ==
  BatchEnded => (~devOpen /\ batchRet \in {"True", "False"})

\* what holds of the paths that return: the device is closed and the result
\* is a boolean
C30_WhenReturned ==
  batchWorker = "returned" => (~devOpen /\ batchRet \in {"True", "False"})

\* the device left open by a batch task after its worker was dismissed
C30_Leaked ==
  batchWorker = "none" /\ devOpen /\ active = 0 /\ hwWorker = "none"
    /\ ~sampleBusyFlag


(***************************************************************************)
(* Properties of the normalisation and of the two delay estimators         *)
(***************************************************************************)
\* the maximum absolute sample over all channels of a frame
MaxAbsAll(sig) ==
  CHOOSE m \in {MaxAbs(sig[ch]) : ch \in 1..microphoneNum} :
    \A ch \in 1..microphoneNum : MaxAbs(sig[ch]) <= m

\* C27: after the normalisation every channel is its mean-removed samples
\* divided by one and the same factor, the maximum absolute sample over all
\* 5 channels (plus epsilon).
C27_SharedFactor ==
  normalized.done =>
    \A ch \in 1..microphoneNum :
      /\ normalized.ch[ch].num = MeanRemoved(signal[ch])
      /\ normalized.ch[ch].den = MaxAbsAll(signal)

\* what the normalisation does: every channel is divided by its own maximum
C27_PerChannelFactor ==
  normalized.done =>
    \A ch \in 1..microphoneNum :
      /\ normalized.ch[ch].num = MeanRemoved(signal[ch])
      /\ normalized.ch[ch].den = MaxAbs(signal[ch])

\* the pairs (mic 0, mic i), i = 1..4, in order
ReferencePairs == [i \in 1..(microphoneNum - 1) |-> <<0, i>>]

\* C28: for the same spectra the offline estimator retains the pairs
\* (mic 0, mic i), i = 1..4, in order, its cross-spectra equal the online
\* estimator's conj(P_0)*P_i, and both return the same signed offsets.
C28_SameOffsets ==
  (onlineOut.done /\ offlineOut.done) =>
    /\ offlineOut.pairs = ReferencePairs
    /\ offlineOut.cross = onlineOut.cross
    /\ offlineOut.tau = onlineOut.tau

\* what holds between the two estimators: the same pairs, cross-spectra that
\* are the complex conjugates of each other, offsets that differ by the sign
\* (the offset -sampleNum/2 is its own opposite modulo sampleNum)
C28_ConjugateOffsets ==
  (onlineOut.done /\ offlineOut.done) =>
    /\ offlineOut.pairs = ReferencePairs
    /\ \A i \in 1..(microphoneNum - 1) :
         /\ \A k \in 1..Len(onlineOut.cross[i]) :
              offlineOut.cross[i][k] = Conj(onlineOut.cross[i][k])
         /\ (offlineOut.tau[i] + onlineOut.tau[i]) % NumSamples = 0

====
